---- MODULE Spec2Model ----
(***************************************************************************)
(* Verification pipeline of TruAI: the in-memory Job Store                 *)
(* (VerificationStorage), and the orchestrator that drives a document's    *)
(* paragraphs through it (verifyParagraph, verifyDocument,                 *)
(* verifyDocumentSequential, startVerificationJob, cancelVerification).    *)
(*                                                                         *)
(* JavaScript runs handlers to completion: one action of this module is    *)
(* one macrotask. A call of an async function runs synchronously up to its *)
(* first await on a timer or on the network, so the synchronous prefix of  *)
(* verifyParagraph belongs to the action that calls it, and the            *)
(* continuation after an await that resolves without a timer (a heading    *)
(* paragraph, delayMs = 0) runs in the same action as what resolved it.    *)
(*                                                                         *)
(* The two services the orchestrator awaits are modelled on their own:     *)
(* scrapeUrls with its worker pool (ScrapeSpec) and verifyWithRetry around *)
(* verifyWithGPT (RetrySpec). Spec keeps them idle and resolves the two    *)
(* awaits of verifyParagraph by FetchReturn, FetchThrow and GptReturn.     *)
(***************************************************************************)
EXTENDS Integers, Sequences, FiniteSets, TLC

\* Bounds of the model.
MaxRuns == 2
MaxCancels == 1

MaxUrls == 7

\* The longest link list of a verification input whose cache key is computed.
MaxLinks == 2
\* The length a source content is cut to in the cache key; the program cuts at
\* 1000 characters, and the contents of the model are at most one longer.
SnippetLen == 3

\* The subscribers of the store, the storeResult and storeError calls made
\* while they listen, and the calls of unsubscribe handles from outside a callback.
MaxClients == 2
MaxStoreCalls == 2
MaxUnsubscribes == 2

\* The number of characters of a URL behind its host.
MaxTail == 3

\* scrapeUrls keeps the first 5 links.
SCRAPE_LIMIT == 5
\* The size of the worker pool of scrapeUrls.
CONCURRENCY == 7
\* maxRetries of verifyWithRetry.
MAX_RETRIES == 2

Docs == {"d1", "d2"}
\* A document of two paragraphs that both go to the fetcher and the model.
SeqDocs == {"d3"}
\* A document whose paragraph list holds null, as a 'verify' message may: the
\* handler tests only that paragraphs is an array.
BadDocs == {"d4"}
Stores == (Docs \cup SeqDocs) \cup BadDocs

Para(id, h, n) == [id |-> id, isHeading |-> h, nlinks |-> n, isNull |-> FALSE]

\* null in the place of a paragraph; its job has no paragraph to take an id from.
NullParagraph == [id |-> 0, isHeading |-> FALSE, nlinks |-> 0, isNull |-> TRUE]

\* The paragraph lists handed to the orchestrator (ids in document order from 1).
Paragraphs(d) ==
  IF d = "d1"
  THEN << Para(1, FALSE, 2), Para(2, TRUE, 0) >>
  ELSE IF d = "d2"
       THEN << Para(1, TRUE, 0), Para(2, FALSE, 6) >>
       ELSE IF d = "d3"
            THEN << Para(1, FALSE, 1), Para(2, FALSE, 0) >>
            ELSE << Para(1, TRUE, 0), NullParagraph >>

Pids(d) == 1..Len(Paragraphs(d))

Confidence == {"high", "medium", "low"}
Status == {"pending", "in_progress", "completed", "failed"}

CancelMessage == "Cancelled by user"
ErrorMessage == "exception"

VARIABLES
  jobs,          \* storage.jobs: doc_id -> list of jobs
  results,       \* storage.results: doc_id -> list of results
  runs,          \* the background runs that have not finished, each with its position
  submitted,     \* number of runs started per doc_id
  emitted,       \* the notifications of the last handler, in order
  updateCount,   \* what a subscriber registered from the start has received
  errorCount,
  completeCount,
  transitions,   \* the status changes <<from, to>> made so far
  stored,        \* the payloads of the storeResult calls per key, in call order
  scrapeCalls,   \* the (doc, paragraph) keys scrapeUrls was called for
  gptCalls,      \* the (doc, paragraph) keys verifyWithRetry was called for
  cancels,       \* number of cancelVerification calls
  cancelSnap,    \* completeCount at a cancel that found pending jobs and one in_progress
  lastOp,        \* the handler that ran last
  scrape,        \* one scrapeUrls call: its input, queue, results array and workers
  contentCache,  \* sourceContentCache: normalized url -> SourceContent
  retry,         \* one verifyWithRetry call: its position, attempts and result
  gptCache,      \* gptVerificationCache, for the cache key of the call's input
  keys,          \* which API keys the environment configures
  keyIn,         \* the two inputs (verification inputs, or URLs) whose cache keys are compared
  keyOut,        \* their cache keys, once computed
  listeners,     \* storage.listeners: the onUpdate, onComplete and onError arrays
  clients,       \* the subscribers: what their callbacks do, and for which doc_id
  received,      \* how often each callback of each subscriber has been called
  handles,       \* how often each unsubscribe handle has been called
  delivered      \* per subscriber, in order: the calls of its callbacks and, for a
                 \* socket, the acknowledgement of its request

vars == << jobs, results, runs, submitted, emitted, updateCount, errorCount, completeCount,
           transitions, stored, scrapeCalls, gptCalls, cancels, cancelSnap,
           lastOp, scrape, contentCache, retry, gptCache, keys, keyIn, keyOut,
           listeners, clients, received, handles, delivered >>

keyVars == << keyIn, keyOut >>

serviceVars == << scrape, contentCache, retry, gptCache, keys >>

pipelineVars == << jobs, results, runs, submitted, emitted, updateCount, errorCount,
                   completeCount, transitions, stored, scrapeCalls, gptCalls, cancels,
                   cancelSnap, lastOp, listeners, clients, received, handles,
                   delivered >>

\* The store and its observers as one value, threaded through a handler.
World ==
  [ jobs |-> jobs, results |-> results, emitted |-> << >>,
    updateCount |-> updateCount, errorCount |-> errorCount,
    completeCount |-> completeCount, transitions |-> transitions,
    stored |-> stored, scrapeCalls |-> scrapeCalls,
    gptCalls |-> gptCalls, listeners |-> listeners, received |-> received,
    handles |-> handles, delivered |-> delivered ]

Commit(w) ==
  /\ jobs' = w.jobs
  /\ results' = w.results
  /\ emitted' = w.emitted
  /\ updateCount' = w.updateCount
  /\ errorCount' = w.errorCount
  /\ completeCount' = w.completeCount
  /\ transitions' = w.transitions
  /\ stored' = w.stored
  /\ scrapeCalls' = w.scrapeCalls
  /\ gptCalls' = w.gptCalls
  /\ listeners' = w.listeners
  /\ received' = w.received
  /\ handles' = w.handles
  /\ delivered' = w.delivered

\* F applied to the value of v, which is computed once.
Let(v, F(_)) == CHOOSE y \in {F(x) : x \in {v}} : TRUE

-----------------------------------------------------------------------------
\* VerificationStorage

\* jobs.find((j) => j.paragraph.id === paragraphId): the first match, 0 for none.
FindJob(js, pid) ==
  IF \E i \in 1..Len(js) : js[i].pid = pid
  THEN CHOOSE i \in 1..Len(js) :
         js[i].pid = pid /\ \A k \in 1..(i - 1) : js[k].pid # pid
  ELSE 0

FindResult(rs, pid) ==
  IF \E i \in 1..Len(rs) : rs[i].paragraph_id = pid
  THEN CHOOSE i \in 1..Len(rs) :
         rs[i].paragraph_id = pid /\ \A k \in 1..(i - 1) : rs[k].paragraph_id # pid
  ELSE 0

\* The status of the job of paragraph pid in a job list, "none" without such a job.
StatusOf(js, pid) == IF FindJob(js, pid) = 0 THEN "none" ELSE js[FindJob(js, pid)].status

\* Faulty variant of CreateJobs: an existing job list is kept.
CreateJobsOnce(w0, d, ps) == Let(w0, LAMBDA w :
  IF w.jobs[d] # << >> THEN w
  ELSE [w EXCEPT !.jobs[d] =
          [i \in 1..Len(ps) |-> [pid |-> ps[i].id, status |-> "pending", error |-> ""]]])

CreateJobs(w0, d, ps) == Let(w0, LAMBDA w :
  [w EXCEPT !.jobs[d] =
     [i \in 1..Len(ps) |-> [pid |-> ps[i].id, status |-> "pending", error |-> ""]]])

GetJobs(w, d) == w.jobs[d]

\* job.status = status, with the change recorded.
SetStatus(w0, d, i, s) == Let(w0, LAMBDA w :
  [w EXCEPT !.jobs[d][i].status = s,
            !.transitions = IF w.jobs[d][i].status # s
                            THEN @ \cup {<< w.jobs[d][i].status, s >>}
                            ELSE @])

UpdateJobStatus(w0, d, pid, s) == Let(w0, LAMBDA w :
  LET i == FindJob(w.jobs[d], pid)
  IN  IF i = 0 THEN w ELSE SetStatus(w, d, i, s))

\* Faulty variant of UpsertResult: the result is pushed without looking for an existing one.
UpsertAppend(rs, res) == Append(rs, res)

UpsertResult(rs, res) ==
  LET i == FindResult(rs, res.paragraph_id)
  IN  IF i > 0 THEN [rs EXCEPT ![i] = res] ELSE Append(rs, res)

\* Faulty variant of ClearDocument: clearAll, which empties both maps.
ClearAll(w, d) ==
  [w EXCEPT !.jobs = [e \in DOMAIN @ |-> << >>],
            !.results = [e \in DOMAIN @ |-> << >>]]

\* jobs.delete(docId) and results.delete(docId); getJobs and getResults
\* answer [] for a doc_id the maps do not hold.
ClearDocument(w, d) == [w EXCEPT !.jobs[d] = << >>, !.results[d] = << >>]

Clients == 1..MaxClients
EventTypes == {"update", "complete", "error"}

\* list.indexOf(c), counted from 1; 0 for -1.
IndexOf(list, c) ==
  IF \E i \in 1..Len(list) : list[i] = c
  THEN CHOOSE i \in 1..Len(list) : list[i] = c /\ \A k \in 1..(i - 1) : list[k] # c
  ELSE 0

\* list.splice(index, 1)
Splice(list, index) ==
  [k \in 1..(Len(list) - 1) |-> IF k < index THEN list[k] ELSE list[k + 1]]

\* Faulty variant of Unsubscribe: splice(index, 1) without the test of index, so
\* that index -1 removes the last listener.
UnsubscribeUnguarded(w0, c, t) == Let(w0, LAMBDA w :
  LET list == w.listeners[t]
      index == IndexOf(list, c)
  IN  [w EXCEPT !.listeners[t] = IF index > 0 THEN Splice(list, index)
                                 ELSE IF list # << >> THEN Splice(list, Len(list))
                                 ELSE list,
                !.handles[c][t] = @ + 1])

\* The function onUpdate, onComplete and onError return, called for the
\* listener subscriber c registered for events of type t.
Unsubscribe(w0, c, t) == Let(w0, LAMBDA w :
  LET list == w.listeners[t]
      index == IndexOf(list, c)
  IN  [w EXCEPT !.listeners[t] = IF index > 0 THEN Splice(list, index) ELSE list,
                !.handles[c][t] = @ + 1])

\* The callback of subscriber c for an event of type t about document d. A
\* faulty subscriber throws; the completion callback of a socket, called for the
\* doc_id of its request, calls its three unsubscribe handles.
\* The event being notified is the last one of emitted.
Listener(w0, c, t, d) == Let(w0, LAMBDA w :
  LET w1 == [w EXCEPT !.received[c][t] = @ + 1,
                      !.delivered[c] =
                         Append(@, [type |-> t, doc |-> d,
                                    pid |-> w.emitted[Len(w.emitted)].pid])]
  IN  IF clients[c].kind = "throws" THEN [w |-> w1, threw |-> TRUE]
      ELSE IF clients[c].kind = "socket" /\ t = "complete" /\ clients[c].doc = d
           THEN [w |-> Unsubscribe(Unsubscribe(Unsubscribe(w1, c, "update"),
                                               c, "complete"), c, "error"),
                 threw |-> FALSE]
           ELSE [w |-> w1, threw |-> FALSE])

\* Faulty variant of TryListener: the callback is called outside try/catch.
CallListener(w, c, t, d) == Listener(w, c, t, d)

\* try { listener(...) } catch (error) { console.error(...) }
TryListener(w, c, t, d) == [w |-> Listener(w, c, t, d).w, threw |-> FALSE]

\* Faulty variant of ForEach: only the listener at index k is called.
ForEachFirst(w0, t, d, k) == Let(w0, LAMBDA w :
  IF k > Len(w.listeners[t]) THEN w
  ELSE TryListener(w, w.listeners[t][k], t, d).w)

RECURSIVE ForEach(_, _, _, _)
\* listeners.forEach from index k on: the array is read again at every index,
\* so a listener removed by a callback shifts the ones behind it. An exception
\* that leaves a callback would end the loop.
ForEach(w0, t, d, k) == Let(w0, LAMBDA w :
  IF k > Len(w.listeners[t]) THEN w
  ELSE Let(TryListener(w, w.listeners[t][k], t, d), LAMBDA r :
         IF r.threw THEN r.w ELSE ForEach(r.w, t, d, k + 1)))

NotifyUpdate(w0, res) == Let(w0, LAMBDA w :
  ForEach([w EXCEPT !.emitted = Append(@, [type |-> "update", doc |-> res.doc_id,
                                           pid |-> res.paragraph_id, msg |-> "",
                                           seen |-> << >>]),
                    !.updateCount[res.doc_id][res.paragraph_id] = @ + 1],
          "update", res.doc_id, 1))

\* seen: the job statuses a listener finds when it is called.
NotifyError(w0, d, pid, err) == Let(w0, LAMBDA w :
  ForEach([w EXCEPT !.emitted = Append(@, [type |-> "error", doc |-> d, pid |-> pid,
                                           msg |-> err,
                                           seen |-> [i \in 1..Len(w.jobs[d]) |->
                                                       w.jobs[d][i].status]]),
                    !.errorCount[d][pid] = @ + 1],
          "error", d, 1))

NotifyComplete(w0, d) == Let(w0, LAMBDA w :
  ForEach([w EXCEPT !.emitted = Append(@, [type |-> "complete", doc |-> d, pid |-> 0,
                                           msg |-> "",
                                           seen |-> [i \in 1..Len(w.jobs[d]) |->
                                                       w.jobs[d][i].status]]),
                    !.completeCount[d] = @ + 1],
          "complete", d, 1))

\* Faulty variant of AllComplete: jobs.some instead of jobs.every.
AllCompleteSome(js) ==
  \E i \in 1..Len(js) : js[i].status \in {"completed", "failed"}

AllComplete(js) ==
  \A i \in 1..Len(js) : js[i].status \in {"completed", "failed"}

CompletionCheck(w0, d) == Let(w0, LAMBDA w :
  LET js == GetJobs(w, d)
  IN  IF AllComplete(js) /\ Len(js) > 0 THEN NotifyComplete(w, d) ELSE w)

\* Faulty variant of StoreResult: the job status is not updated.
StoreResultNoStatus(w0, res) == Let(w0, LAMBDA w :
  LET d  == res.doc_id
      w1 == [w EXCEPT !.results[d] = UpsertResult(@, res),
                      !.stored[d][res.paragraph_id] =
                         Append(@, [confidence |-> res.confidence,
                                    link_digests |-> res.link_digests])]
      w3 == NotifyUpdate(w1, res)
  IN  CompletionCheck(w3, d))

StoreResult(w0, res) == Let(w0, LAMBDA w :
  LET d  == res.doc_id
      w1 == [w EXCEPT !.results[d] = UpsertResult(@, res),
                      !.stored[d][res.paragraph_id] =
                         Append(@, [confidence |-> res.confidence,
                                    link_digests |-> res.link_digests])]
      w2 == UpdateJobStatus(w1, d, res.paragraph_id, "completed")
      w3 == NotifyUpdate(w2, res)
  IN  CompletionCheck(w3, d))

\* Faulty variant of StoreError: the error is notified but the job is not marked failed.
StoreErrorNoFail(w, d, pid, err) ==
  CompletionCheck(NotifyError(w, d, pid, err), d)

\* Faulty variant of StoreError: the completion check is left out.
StoreErrorNoCheck(w0, d, pid, err) == Let(w0, LAMBDA w :
  LET i  == FindJob(w.jobs[d], pid)
      w1 == IF i = 0 THEN w
            ELSE [SetStatus(w, d, i, "failed") EXCEPT !.jobs[d][i].error = err]
  IN  NotifyError(w1, d, pid, err))

\* Faulty variant of StoreError: the error fails every unfinished job of the document.
StoreErrorAbort(w0, d, pid, err) == Let(w0, LAMBDA w :
  LET w1 == [w EXCEPT !.jobs[d] =
               [i \in 1..Len(@) |->
                  IF @[i].status \in {"completed", "failed"} THEN @[i]
                  ELSE [@[i] EXCEPT !.status = "failed", !.error = err]]]
      w2 == NotifyError(w1, d, pid, err)
  IN  CompletionCheck(w2, d))

\* Faulty variant of StoreError: the job fails without its error message.
StoreErrorNoMessage(w0, d, pid, err) == Let(w0, LAMBDA w :
  LET i  == FindJob(w.jobs[d], pid)
      w1 == IF i = 0 THEN w ELSE SetStatus(w, d, i, "failed")
      w2 == NotifyError(w1, d, pid, err)
  IN  CompletionCheck(w2, d))

StoreError(w0, d, pid, err) == Let(w0, LAMBDA w :
  LET i  == FindJob(w.jobs[d], pid)
      w1 == IF i = 0 THEN w
            ELSE [SetStatus(w, d, i, "failed") EXCEPT !.jobs[d][i].error = err]
      w2 == NotifyError(w1, d, pid, err)
  IN  CompletionCheck(w2, d))

-----------------------------------------------------------------------------
\* The orchestrator

HeadingResult(d, p) ==
  [doc_id |-> d, paragraph_id |-> p.id, confidence |-> "high", link_digests |-> 0]

Min(a, b) == IF a < b THEN a ELSE b

\* scrapeUrls returns one source per link of urls.slice(0, 5); verifyParagraph
\* maps each source to one link digest.
VerifiedResult(d, p, c) ==
  [doc_id |-> d, paragraph_id |-> p.id, confidence |-> c,
   link_digests |-> Min(SCRAPE_LIMIT, p.nlinks)]

\* Faulty variant of VerifyStart: the isHeading test is missing.
VerifyStartAll(w, d, p) ==
  [w |-> [UpdateJobStatus(w, d, p.id, "in_progress")
            EXCEPT !.scrapeCalls = @ \cup {<< d, p.id >>}],
   phase |-> "scrape"]

\* Faulty variant of VerifyStart: a paragraph without links is stored at once,
\* like a heading.
VerifyStartSkipEmpty(w, d, p) ==
  IF p.isHeading \/ p.nlinks = 0
  THEN [w |-> StoreResult(UpdateJobStatus(w, d, p.id, "in_progress"),
                          HeadingResult(d, p)),
        phase |-> "done"]
  ELSE [w |-> [UpdateJobStatus(w, d, p.id, "in_progress")
                 EXCEPT !.scrapeCalls = @ \cup {<< d, p.id >>}],
        phase |-> "scrape"]

\* verifyParagraph up to its first suspension: a heading is stored at once, any
\* other paragraph becomes in_progress and waits for scrapeUrls.
VerifyStart(w, d, p) ==
  IF p.isHeading
  THEN [w |-> StoreResult(UpdateJobStatus(w, d, p.id, "in_progress"),
                          HeadingResult(d, p)),
        phase |-> "done"]
  ELSE [w |-> [UpdateJobStatus(w, d, p.id, "in_progress")
                 EXCEPT !.scrapeCalls = @ \cup {<< d, p.id >>}],
        phase |-> "scrape"]

\* The values passed as delayMs, each with the number it converts to where a
\* number is wanted (delayMs > 0, setTimeout(resolve, delayMs)): true is 1.
Num(n) == [type |-> "number", n |-> n]
True == [type |-> "boolean", n |-> 1]
ToNumber(v) == v.n

\* timers: the durations of the delays the run has waited or is waiting for.
NewRun(d, seq, delay) ==
  [doc |-> d, sequential |-> seq, delay |-> delay,
   pc |-> [i \in Pids(d) |-> "wait"], sleeping |-> FALSE, timers |-> << >>,
   caught |-> FALSE, outcome |-> "running"]

RECURSIVE SeqAdvance(_, _, _)
RECURSIVE AfterParagraph(_, _, _)

\* The for loop of verifyDocumentSequential from paragraph i on, up to the next
\* suspension of the run. verifyParagraph destructures its paragraph before its
\* try block: for null it rejects, and so does the run, which ends there; the
\* rejection goes to the handler attached to the run's promise, if there is one.
SeqAdvance(w, run, i) ==
  LET ps == Paragraphs(run.doc)
  IN  IF i > Len(ps) THEN [w |-> w, run |-> run]
      ELSE IF ps[i].isNull
      THEN [w |-> w, run |-> [run EXCEPT !.outcome = IF run.caught THEN "logged"
                                                    ELSE "unhandled"]]
      ELSE Let(VerifyStart(w, run.doc, ps[i]), LAMBDA v :
             LET r1 == [run EXCEPT !.pc[i] = v.phase]
             IN  IF v.phase = "done"
                 THEN AfterParagraph(v.w, r1, i)
                 ELSE [w |-> v.w, run |-> r1])

\* Faulty variant of AfterParagraph: the delay follows the last paragraph too.
AfterParagraphEvery(w, run, i) ==
  IF ~run.sequential THEN [w |-> w, run |-> run]
  ELSE IF ToNumber(run.delay) > 0
       THEN [w |-> w, run |-> [run EXCEPT !.sleeping = TRUE,
                                          !.timers = Append(@, ToNumber(run.delay))]]
       ELSE SeqAdvance(w, run, i + 1)

\* After paragraph i resolved: the delay, unless it was the last paragraph.
AfterParagraph(w, run, i) ==
  IF ~run.sequential THEN [w |-> w, run |-> run]
  ELSE IF ToNumber(run.delay) > 0 /\ i < Len(Paragraphs(run.doc))
       THEN [w |-> w, run |-> [run EXCEPT !.sleeping = TRUE,
                                          !.timers = Append(@, ToNumber(run.delay))]]
       ELSE SeqAdvance(w, run, i + 1)

RECURSIVE ParStart(_, _, _)
\* paragraphs.map((paragraph) => verifyParagraph(docId, paragraph)) from i on.
ParStart(w, run, i) ==
  LET ps == Paragraphs(run.doc)
  IN  IF i > Len(ps) THEN [w |-> w, run |-> run]
      ELSE Let(VerifyStart(w, run.doc, ps[i]), LAMBDA v :
             ParStart(v.w, [run EXCEPT !.pc[i] = v.phase], i + 1))

VerifyDocumentSequential(w, d, delay) ==
  SeqAdvance(CreateJobs(w, d, Paragraphs(d)), NewRun(d, TRUE, delay), 1)

\* Faulty variant of StartVerificationJob: no handler is attached to the promise.
StartVerificationJobNoCatch(w, d, delay) == VerifyDocumentSequential(w, d, delay)

\* startVerificationJob(docId, paragraphs, delayMs = 0): the sequential run,
\* whatever the arguments; a fourth argument is not read. The call attaches
\* .catch((error) => console.error(...)) to the promise of the run before
\* anything else can run.
StartVerificationJob(w, d, delay) ==
  Let(VerifyDocumentSequential(w, d, delay), LAMBDA out :
    [out EXCEPT !.run.caught = TRUE,
                !.run.outcome = IF @ = "unhandled" THEN "logged" ELSE @])

VerifyDocument(w, d) ==
  ParStart(CreateJobs(w, d, Paragraphs(d)), NewRun(d, FALSE, Num(0)), 1)

RECURSIVE CancelFromActive(_, _, _)
\* Faulty variant of CancelFrom: in_progress jobs are cancelled too.
CancelFromActive(w0, d, i) == Let(w0, LAMBDA w :
  LET js == GetJobs(w, d)
  IN  IF i > Len(js) THEN w
      ELSE IF js[i].status \in {"pending", "in_progress"}
           THEN CancelFromActive(StoreError(UpdateJobStatus(w, d, js[i].pid, "failed"),
                                            d, js[i].pid, CancelMessage), d, i + 1)
           ELSE CancelFromActive(w, d, i + 1))

RECURSIVE CancelFrom(_, _, _)
\* jobs.forEach of cancelVerification from index i on.
CancelFrom(w0, d, i) == Let(w0, LAMBDA w :
  LET js == GetJobs(w, d)
  IN  IF i > Len(js) THEN w
      ELSE IF js[i].status = "pending"
           THEN CancelFrom(StoreError(UpdateJobStatus(w, d, js[i].pid, "failed"),
                                      d, js[i].pid, CancelMessage), d, i + 1)
           ELSE CancelFrom(w, d, i + 1))

CancelVerification(w, d) == CancelFrom(w, d, 1)

-----------------------------------------------------------------------------
\* The values of the two services

\* The links a paragraph may cite: two spellings of one page, another page and
\* a string that new URL() rejects.
UrlAt(i) ==
  CASE i % 4 = 1 -> "http://a.org"
    [] i % 4 = 2 -> "not a url"
    [] i % 4 = 3 -> "http://A.org/"
    [] OTHER     -> "http://b.org"

Catalog == [i \in 1..MaxUrls |-> UrlAt(i)]

\* The link lists handed to scrapeUrls: every run of consecutive links of the
\* catalog, the empty list included.
UrlLists ==
  {SubSeq(Catalog, i, j) : i \in 1..(MaxUrls + 1), j \in 0..MaxUrls}

\* new URL(url) does not throw.
ValidUrl(u) == u # "not a url"

\* normalizeUrl: no fragment, lower case, no trailing slash; a string that does
\* not parse is lower-cased as it is.
NormalizeUrl(u) == IF u = "http://A.org/" THEN "http://a.org" ELSE u

CacheKeys == {NormalizeUrl(UrlAt(i)) : i \in 1..4}

NoError == ""
NoEntry == [url |-> "(none)", content |-> "", error |-> NoError]
Hole == [url |-> "(hole)", content |-> "", error |-> NoError]
NoItem == [url |-> "", index |-> 0]

ScrapeIdle(urls) ==
  [state |-> "idle", urls |-> urls, queue |-> << >>, slots |-> << >>,
   workers |-> << >>, taken |-> [i \in 1..Len(urls) |-> 0],
   failures |-> [i \in 1..Len(urls) |-> NoError],
   before |-> [i \in 1..Len(urls) |-> NoEntry],
   fetches |-> [i \in 1..Len(urls) |-> 0]]

\* One verification output: of the model, of the cache, or a stand-in.
GptOutput(c, summary, reasoning) ==
  [confidence |-> c, summary_of_sources |-> summary, reasoning |-> reasoning]

NoOutput == GptOutput("none", "", "")

RetryIdle ==
  [pc |-> "idle", attempt |-> 0, lastError |-> "", calls |-> << >>,
   waits |-> << >>, out |-> NoOutput]

-----------------------------------------------------------------------------
PipelineInit ==
  /\ jobs = [d \in Stores |-> << >>]
  /\ results = [d \in Stores |-> << >>]
  /\ runs = << >>
  /\ submitted = [d \in Stores |-> 0]
  /\ emitted = << >>
  /\ updateCount = [d \in Stores |-> [p \in Pids(d) |-> 0]]
  /\ errorCount = [d \in Stores |-> [p \in Pids(d) |-> 0]]
  /\ completeCount = [d \in Stores |-> 0]
  /\ transitions = {}
  /\ stored = [d \in Stores |-> [p \in Pids(d) |-> << >>]]
  /\ scrapeCalls = {}
  /\ gptCalls = {}
  /\ cancels = 0
  /\ cancelSnap = [d \in Stores |-> -1]
  /\ lastOp = [op |-> "init", doc |-> "none"]
  /\ listeners = [t \in EventTypes |-> << >>]
  /\ clients = [c \in Clients |-> [kind |-> "none", doc |-> "none"]]
  /\ received = [c \in Clients |-> [t \in EventTypes |-> 0]]
  /\ handles = [c \in Clients |-> [t \in EventTypes |-> 0]]
  /\ delivered = [c \in Clients |-> << >>]

\* No cache key is being computed.
KeyIdle == keyIn = << >> /\ keyOut = << >>

\* The pipeline, with both services idle.
Init ==
  /\ PipelineInit
  /\ scrape = ScrapeIdle(<< >>)
  /\ contentCache = [key \in CacheKeys |-> NoEntry]
  /\ retry = RetryIdle
  /\ gptCache = NoOutput
  /\ keys = [scraper |-> TRUE, openai |-> TRUE]
  /\ KeyIdle

RECURSIVE Sum(_, _)
Sum(f, S) == IF S = {} THEN 0 ELSE LET x == CHOOSE x \in S : TRUE
                                   IN  f[x] + Sum(f, S \ {x})

\* A run has returned when every paragraph is done and no timer is pending.
Finished(run) == ~run.sleeping /\ \A i \in DOMAIN run.pc : run.pc[i] = "done"

RemoveAt(s, r) == [k \in 1..(Len(s) - 1) |-> IF k < r THEN s[k] ELSE s[k + 1]]

Start(out, op, d) ==
  /\ Commit(out.w)
  /\ runs' = IF Finished(out.run) THEN runs ELSE Append(runs, out.run)
  /\ submitted' = [submitted EXCEPT ![d] = @ + 1]
  /\ lastOp' = [op |-> op, doc |-> d]
  /\ UNCHANGED << cancels, cancelSnap >>
  /\ UNCHANGED serviceVars
  /\ UNCHANGED keyVars
  /\ UNCHANGED clients

\* POST /api/ingest: startVerificationJob(doc_id, paragraphs, 0) with a doc_id
\* generated for this request.
SubmitIngest(d) ==
  /\ Sum(submitted, Stores) < MaxRuns
  /\ submitted[d] = 0
  /\ \E out \in {StartVerificationJob(World, d, Num(0))} : Start(out, "ingest", d)

\* POST /api/test-verification, and the call of socket.on('verify') on its own:
\* startVerificationJob(doc_id, paragraphs, true, 1000); delayMs is true, and
\* true > 0, so the run sleeps between paragraphs.
SubmitVerify(d) ==
  /\ Sum(submitted, Stores) < MaxRuns
  /\ \E out \in {StartVerificationJob(World, d, True)} : Start(out, "verify", d)

\* verifyDocument(docId, paragraphs): the parallel run.
SubmitParallel(d) ==
  /\ Sum(submitted, Stores) < MaxRuns
  /\ \E out \in {VerifyDocument(World, d)} : Start(out, "parallel", d)

HasPending(js) == \E i \in 1..Len(js) : js[i].status = "pending"
InProgress(js) == {i \in 1..Len(js) : js[i].status = "in_progress"}

Cancel(d) ==
  /\ cancels < MaxCancels
  /\ cancels' = cancels + 1
  /\ \E w \in {CancelVerification(World, d)} : Commit(w)
  /\ cancelSnap' = IF /\ cancelSnap[d] = -1
                      /\ HasPending(jobs[d])
                      /\ Cardinality(InProgress(jobs[d])) = 1
                   THEN [cancelSnap EXCEPT ![d] = completeCount[d]]
                   ELSE cancelSnap
  /\ lastOp' = [op |-> "cancel", doc |-> d]
  /\ UNCHANGED << runs, submitted >>
  /\ UNCHANGED serviceVars
  /\ UNCHANGED keyVars
  /\ UNCHANGED clients

Step(out, r, op) ==
  /\ Commit(out.w)
  /\ runs' = IF Finished(out.run) THEN RemoveAt(runs, r)
              ELSE [runs EXCEPT ![r] = out.run]
  /\ lastOp' = [op |-> op, doc |-> runs[r].doc]
  /\ UNCHANGED << submitted, cancels, cancelSnap >>
  /\ UNCHANGED serviceVars
  /\ UNCHANGED keyVars
  /\ UNCHANGED clients

\* await scrapeUrls(links) returns: verifyWithRetry is called.
FetchReturn(r, i) ==
  /\ runs[r].pc[i] = "scrape"
  /\ \E out \in {[w |-> [World EXCEPT !.gptCalls =
                                   @ \cup {<< runs[r].doc,
                                               Paragraphs(runs[r].doc)[i].id >>}],
                     run |-> [runs[r] EXCEPT !.pc[i] = "gpt"]]} :
       Step(out, r, "fetched")

\* await scrapeUrls(links) rejects (a link that is no string makes the catch
\* block of scrapeUrl throw): the catch block of verifyParagraph. With no link
\* scrapeUrls starts no worker and has nothing that throws.
FetchThrow(r, i) ==
  /\ runs[r].pc[i] = "scrape"
  /\ Paragraphs(runs[r].doc)[i].nlinks > 0
  /\ LET d == runs[r].doc
         p == Paragraphs(d)[i]
     IN  \E w \in {StoreError(World, d, p.id, ErrorMessage)} :
           \E out \in {AfterParagraph(w, [runs[r] EXCEPT !.pc[i] = "done"], i)} :
             Step(out, r, "threw")

\* await verifyWithRetry(gptInput) returns a verdict: the result is stored.
GptReturn(r, i, c) ==
  /\ runs[r].pc[i] = "gpt"
  /\ LET d == runs[r].doc
         p == Paragraphs(d)[i]
     IN  \E w \in {StoreResult(World, VerifiedResult(d, p, c))} :
           \E out \in {AfterParagraph(w, [runs[r] EXCEPT !.pc[i] = "done"], i)} :
             Step(out, r, "verified")

NextWaiting(run) ==
  CHOOSE i \in DOMAIN run.pc :
    run.pc[i] = "wait" /\ \A k \in DOMAIN run.pc : k < i => run.pc[k] # "wait"

\* The setTimeout(resolve, delayMs) between two paragraphs fires.
Wake(r) ==
  /\ runs[r].sleeping
  /\ \E out \in {SeqAdvance(World, [runs[r] EXCEPT !.sleeping = FALSE],
                              NextWaiting(runs[r]))} :
       Step(out, r, "woke")

Next ==
  \/ \E d \in Docs : SubmitIngest(d)
  \/ \E d \in Docs : SubmitVerify(d)
  \/ \E d \in Docs : SubmitParallel(d)
  \/ \E d \in Docs : Cancel(d)
  \/ \E r \in 1..Len(runs) : \E i \in DOMAIN runs[r].pc : FetchReturn(r, i)
  \/ \E r \in 1..Len(runs) : \E i \in DOMAIN runs[r].pc : FetchThrow(r, i)
  \/ \E r \in 1..Len(runs) : \E i \in DOMAIN runs[r].pc :
       \E c \in Confidence : GptReturn(r, i, c)
  \/ \E r \in 1..Len(runs) : Wake(r)

Spec == Init /\ [][Next]_vars

\* Every fetch, model call and timer of a run eventually returns.
RunStep ==
  \/ \E r \in 1..Len(runs) : \E i \in DOMAIN runs[r].pc : FetchReturn(r, i)
  \/ \E r \in 1..Len(runs) : \E i \in DOMAIN runs[r].pc : FetchThrow(r, i)
  \/ \E r \in 1..Len(runs) : \E i \in DOMAIN runs[r].pc :
       \E c \in Confidence : GptReturn(r, i, c)
  \/ \E r \in 1..Len(runs) : Wake(r)

FairSpec == Init /\ [][Next]_vars /\ WF_vars(RunStep)

\* Sequential runs only, on a document with two paragraphs to verify:
\* submissions by the ingest route and by the 'verify' handler, no cancellation.
SeqNext ==
  \/ \E d \in SeqDocs : SubmitIngest(d)
  \/ \E d \in SeqDocs : SubmitVerify(d)
  \/ \E r \in 1..Len(runs) : \E i \in DOMAIN runs[r].pc : FetchReturn(r, i)
  \/ \E r \in 1..Len(runs) : \E i \in DOMAIN runs[r].pc : FetchThrow(r, i)
  \/ \E r \in 1..Len(runs) : \E i \in DOMAIN runs[r].pc :
       \E c \in Confidence : GptReturn(r, i, c)
  \/ \E r \in 1..Len(runs) : Wake(r)

SeqSpec == Init /\ [][SeqNext]_vars

SeqFairSpec == Init /\ [][SeqNext]_vars /\ WF_vars(RunStep)

\* socket.on('verify') of a socket that has sent no request yet: the message is
\* validated, the three listeners are registered, startVerificationJob is
\* called, and then verification_started is emitted.
VerifyRequest(c, d) ==
  /\ Sum(submitted, Stores) < MaxRuns
  /\ clients[c].kind = "none"
  /\ \A b \in Clients : b < c => clients[b].kind # "none"
  /\ clients' = [clients EXCEPT ![c] = [kind |-> "socket", doc |-> d]]
  /\ LET w1 == [World EXCEPT !.listeners = [t \in EventTypes |-> Append(@[t], c)]]
     IN  \E out \in {StartVerificationJob(w1, d, True)} :
           /\ Commit([out.w EXCEPT !.delivered[c] =
                        Append(@, [type |-> "started", doc |-> d, pid |-> 0])])
           /\ runs' = IF Finished(out.run) THEN runs ELSE Append(runs, out.run)
  /\ submitted' = [submitted EXCEPT ![d] = @ + 1]
  /\ lastOp' = [op |-> "request", doc |-> d]
  /\ UNCHANGED << cancels, cancelSnap >>
  /\ UNCHANGED serviceVars
  /\ UNCHANGED keyVars

\* The 'verify' requests of the sockets and the runs they start.
SocketNext ==
  \/ \E c \in Clients : \E d \in Docs \cup BadDocs : VerifyRequest(c, d)
  \/ \E r \in 1..Len(runs) : \E i \in DOMAIN runs[r].pc : FetchReturn(r, i)
  \/ \E r \in 1..Len(runs) : \E i \in DOMAIN runs[r].pc : FetchThrow(r, i)
  \/ \E r \in 1..Len(runs) : \E i \in DOMAIN runs[r].pc :
       \E c \in Confidence : GptReturn(r, i, c)
  \/ \E r \in 1..Len(runs) : Wake(r)

SocketSpec == Init /\ [][SocketNext]_vars

-----------------------------------------------------------------------------
\* The store and its subscribers

\* The document whose jobs the calls below work on.
ListenedDocs == {"d1"}

StoreCalls ==
  Sum([d \in Stores |-> Sum(updateCount[d], Pids(d)) + Sum(errorCount[d], Pids(d))],
      Stores)

HandleCalls ==
  Sum([c \in Clients |-> Sum(handles[c], EventTypes)], Clients)

StoreStep(w, op, d) ==
  /\ Commit(w)
  /\ lastOp' = [op |-> op, doc |-> d]
  /\ UNCHANGED << runs, submitted, cancels, cancelSnap >>
  /\ UNCHANGED serviceVars
  /\ UNCHANGED keyVars

\* A subscriber registers its three listeners: storage.onUpdate,
\* storage.onComplete, storage.onError, each pushing a new function.
Subscribe(c, kind, d) ==
  /\ clients[c].kind = "none"
  /\ \A b \in Clients : b < c => clients[b].kind # "none"
  /\ clients' = [clients EXCEPT ![c] = [kind |-> kind, doc |-> d]]
  /\ \E w \in {[World EXCEPT !.listeners = [t \in EventTypes |-> Append(@[t], c)]]} :
       StoreStep(w, "subscribe", d)

\* An unsubscribe handle is called, outside any callback; it may be called
\* again after it has been called.
UnsubscribeCall(c, t) ==
  /\ clients[c].kind # "none"
  /\ HandleCalls < MaxUnsubscribes
  /\ \E w \in {Unsubscribe(World, c, t)} : StoreStep(w, "unsubscribe", clients[c].doc)
  /\ UNCHANGED clients

CreateJobsCall(d) ==
  /\ jobs[d] = << >>
  /\ \E w \in {CreateJobs(World, d, Paragraphs(d))} : StoreStep(w, "createJobs", d)
  /\ UNCHANGED clients

StoreResultCall(d, pid) ==
  /\ StoreCalls < MaxStoreCalls
  /\ jobs[d] # << >>
  /\ \E w \in {StoreResult(World, [doc_id |-> d, paragraph_id |-> pid,
                                     confidence |-> "high", link_digests |-> 0])} :
       StoreStep(w, "storeResult", d)
  /\ UNCHANGED clients

StoreErrorCall(d, pid) ==
  /\ StoreCalls < MaxStoreCalls
  /\ jobs[d] # << >>
  /\ \E w \in {StoreError(World, d, pid, ErrorMessage)} : StoreStep(w, "storeError", d)
  /\ UNCHANGED clients

ListenerNext ==
  \/ \E c \in Clients : \E kind \in {"plain", "throws"} : Subscribe(c, kind, "any")
  \/ \E c \in Clients : \E d \in Docs : Subscribe(c, "socket", d)
  \/ \E c \in Clients : \E t \in EventTypes : UnsubscribeCall(c, t)
  \/ \E d \in ListenedDocs : CreateJobsCall(d)
  \/ \E d \in ListenedDocs : \E pid \in Pids(d) : StoreResultCall(d, pid)
  \/ \E d \in ListenedDocs : \E pid \in Pids(d) : StoreErrorCall(d, pid)

ListenerSpec == Init /\ [][ListenerNext]_vars

\* createJobs for a doc_id that has a job list with a job that has ended.
CreateJobsAgain(d) ==
  /\ \E i \in 1..Len(jobs[d]) : jobs[d][i].status \in {"completed", "failed"}
  /\ \E w \in {CreateJobs(World, d, Paragraphs(d))} : StoreStep(w, "createJobs", d)
  /\ UNCHANGED clients

\* updateJobStatus(docId, paragraphId, 'in_progress'), as verifyParagraph calls
\* it, for the first job that is pending.
UpdateJobStatusCall(d, pid) ==
  /\ StatusOf(jobs[d], pid) = "pending"
  /\ \A i \in 1..(FindJob(jobs[d], pid) - 1) : jobs[d][i].status # "pending"
  /\ \E w \in {UpdateJobStatus(World, d, pid, "in_progress")} :
       StoreStep(w, "updateJobStatus", d)
  /\ UNCHANGED clients

\* clearDocument(docId) for a document that has a result.
ClearDocumentCall(d) ==
  /\ results[d] # << >>
  /\ \E w \in {ClearDocument(World, d)} : StoreStep(w, "clearDocument", d)
  /\ UNCHANGED clients

\* The operations of the store on two documents, in any order, with nobody
\* subscribed.
StoreNext ==
  \/ \E d \in Docs : CreateJobsCall(d)
  \/ \E d \in Docs : CreateJobsAgain(d)
  \/ \E d \in Docs : \E pid \in Pids(d) : UpdateJobStatusCall(d, pid)
  \/ \E d \in Docs : \E pid \in Pids(d) : StoreResultCall(d, pid)
  \/ \E d \in Docs : \E pid \in Pids(d) : StoreErrorCall(d, pid)
  \/ \E d \in Docs : Cancel(d)
  \/ \E d \in Docs : ClearDocumentCall(d)

StoreSpec == Init /\ [][StoreNext]_vars

-----------------------------------------------------------------------------
\* scrapeUrl and scrapeUrls

SourceOk(url) == [url |-> url, content |-> "page", error |-> NoError]

\* The errorResult of the catch block of scrapeUrl.
ErrorResult(url, msg) == [url |-> url, content |-> "", error |-> msg]

MockResult(url) ==
  [url |-> url, content |-> "mock", error |-> "ScrapingBee API key not configured"]

\* Faulty variant of LimitedUrls: the list is not cut.
AllUrls(urls) == urls

\* urls.slice(0, 5)
LimitedUrls(urls) == SubSeq(urls, 1, Min(SCRAPE_LIMIT, Len(urls)))

NewWorker == [state |-> "new", item |-> NoItem, timer |-> "none", result |-> Hole]

\* The call and the cache as one value, threaded through a handler.
Scraping == [s |-> scrape, cache |-> contentCache]

\* scrapeUrl returns res: the promise worker k awaits is resolved, and the
\* worker goes on in a microtask of the same handler.
Resolved(x, k, item, res) ==
  [x EXCEPT !.s.workers[k] =
     [state |-> "ready", item |-> item, timer |-> "none", result |-> res]]

\* Faulty variant of Fail: the error is thrown on, and nothing is returned for the link.
FailThrow(x, k, item, msg) ==
  [x EXCEPT !.s.failures[item.index] = msg,
            !.s.workers[k] =
              [state |-> "exit", item |-> item, timer |-> "none", result |-> Hole]]

\* The catch block of scrapeUrl: the error result is cached and returned.
Fail(x, k, item, msg) ==
  Resolved([x EXCEPT !.cache[NormalizeUrl(item.url)] = ErrorResult(item.url, msg),
                     !.s.failures[item.index] = msg],
           k, item, ErrorResult(item.url, msg))

\* await fetch(apiUrl): the request is sent and its timer armed.
SendRequest(x, k, item) ==
  [x EXCEPT !.s.fetches[item.index] = @ + 1,
            !.s.workers[k] =
              [state |-> "fetch", item |-> item, timer |-> "armed", result |-> Hole]]

\* Faulty variant of ScrapeUrlBegin: the cache is not looked up.
ScrapeUrlBeginNoLookup(x0, k, item) == Let(x0, LAMBDA x :
  LET key == NormalizeUrl(item.url)
      x1  == [x EXCEPT !.s.before[item.index] = x.cache[key]]
  IN  IF ~ValidUrl(item.url) THEN Fail(x1, k, item, "Invalid URL")
      ELSE IF ~keys.scraper
           THEN Resolved([x1 EXCEPT !.cache[key] = MockResult(item.url)],
                         k, item, MockResult(item.url))
           ELSE SendRequest(x1, k, item))

\* scrapeUrl(item.url) up to its first suspension; before keeps what the cache
\* held under the normalized address when the call was made.
ScrapeUrlBegin(x0, k, item) == Let(x0, LAMBDA x :
  LET key == NormalizeUrl(item.url)
      x1  == [x EXCEPT !.s.before[item.index] = x.cache[key]]
  IN  IF ~ValidUrl(item.url) THEN Fail(x1, k, item, "Invalid URL")
      ELSE IF x.cache[key] # NoEntry THEN Resolved(x1, k, item, x.cache[key])
      ELSE IF ~keys.scraper
           THEN Resolved([x1 EXCEPT !.cache[key] = MockResult(item.url)],
                         k, item, MockResult(item.url))
           ELSE SendRequest(x1, k, item))

\* while (queue.length > 0) { item = queue.shift(); await scrapeUrl(item.url) ...
WorkerLoop(x0, k) == Let(x0, LAMBDA x :
  IF x.s.queue = << >>
  THEN [x EXCEPT !.s.workers[k] =
          [state |-> "exit", item |-> @.item, timer |-> "none", result |-> Hole]]
  ELSE LET item == Head(x.s.queue)
       IN  ScrapeUrlBegin([x EXCEPT !.s.queue = Tail(@),
                                    !.s.taken[item.index] = @ + 1], k, item))

RECURSIVE Spawn(_, _)
\* Array.from({ length }, () => worker()): worker k runs up to its first await.
Spawn(x, k) ==
  IF k > Len(x.s.workers) THEN x ELSE Spawn(WorkerLoop(x, k), k + 1)

\* Faulty variant of PutResult: results.push(result).
PushResult(slots, index, res) ==
  LET i == CHOOSE i \in 1..Len(slots) :
             slots[i] = Hole /\ \A j \in 1..(i - 1) : slots[j] # Hole
  IN  [slots EXCEPT ![i] = res]

\* results[item.index] = result
PutResult(slots, index, res) == [slots EXCEPT ![index] = res]

Ready(ws) == {k \in 1..Len(ws) : ws[k].state = "ready"}

RECURSIVE Drain(_)
\* The microtasks of a handler: every worker whose scrapeUrl has returned stores
\* the result and loops; when the last worker has left, Promise.all resolves and
\* scrapeUrls waits for its 2 s timer.
Drain(x0) == Let(x0, LAMBDA x :
  IF Ready(x.s.workers) = {}
  THEN IF \A k \in 1..Len(x.s.workers) : x.s.workers[k].state = "exit"
       THEN [x EXCEPT !.s.state = "settling"]
       ELSE x
  ELSE LET k == CHOOSE k \in Ready(x.s.workers) :
                  \A j \in Ready(x.s.workers) : k <= j
           w == x.s.workers[k]
       IN  Drain(WorkerLoop([x EXCEPT !.s.slots =
                                        PutResult(@, w.item.index, w.result)], k)))

ScrapeStep(x) ==
  /\ scrape' = x.s
  /\ contentCache' = x.cache
  /\ UNCHANGED << retry, gptCache, keys >>
  /\ UNCHANGED keyVars
  /\ UNCHANGED pipelineVars

\* scrapeUrls(urls) is called.
ScrapeUrlsCall ==
  /\ scrape.state = "idle"
  /\ LET limitedUrls == LimitedUrls(scrape.urls)
         n == Len(limitedUrls)
     IN  \E x \in {Drain(Spawn(
                 [Scraping EXCEPT
                    !.s.state = "running",
                    !.s.queue = [i \in 1..n |-> [url |-> limitedUrls[i], index |-> i]],
                    !.s.slots = [i \in 1..n |-> Hole],
                    !.s.workers = [k \in 1..Min(CONCURRENCY, n) |-> NewWorker]], 1))} :
           ScrapeStep(x)

Fetching(k) == k \in 1..Len(scrape.workers) /\ scrape.workers[k].state = "fetch"

\* fetch(apiUrl) rejects: a network error.
NetworkError(k) ==
  /\ Fetching(k)
  /\ \E x \in {Drain(Fail(Scraping, k, scrape.workers[k].item, "fetch failed"))} :
       ScrapeStep(x)

\* fetch(apiUrl) resolves: clearTimeout, then the test of response.ok.
Response(k, ok) ==
  /\ Fetching(k)
  /\ \E x \in {IF ok
               THEN [Scraping EXCEPT !.s.workers[k].state = "body",
                                     !.s.workers[k].timer = "cleared"]
               ELSE Drain(Fail(Scraping, k, scrape.workers[k].item,
                               "ScrapingBee API error"))} :
       ScrapeStep(x)

\* response.text() resolves: the page is parsed, cached and returned.
BodyText(k) ==
  /\ k \in 1..Len(scrape.workers)
  /\ scrape.workers[k].state = "body"
  /\ LET item == scrape.workers[k].item
     IN  \E x \in {Drain(Resolved(
                 [Scraping EXCEPT !.cache[NormalizeUrl(item.url)] = SourceOk(item.url)],
                 k, item, SourceOk(item.url)))} :
           ScrapeStep(x)

\* response.text() rejects, or the page cannot be parsed.
BodyError(k) ==
  /\ k \in 1..Len(scrape.workers)
  /\ scrape.workers[k].state = "body"
  /\ \E x \in {Drain(Fail(Scraping, k, scrape.workers[k].item, "body failed"))} :
       ScrapeStep(x)

\* The setTimeout(() => controller.abort(), SCRAPING_TIMEOUT) of a pending
\* fetch fires. The signal of the controller is not handed to fetch, so the
\* fetch stays pending.
AbortTimer(k) ==
  /\ Fetching(k)
  /\ scrape.workers[k].timer = "armed"
  /\ \E x \in {[Scraping EXCEPT !.s.workers[k].timer = "fired"]} : ScrapeStep(x)

\* The 2 s timer of scrapeUrls fires: the results array is returned.
ScrapeUrlsReturn ==
  /\ scrape.state = "settling"
  /\ \E x \in {[Scraping EXCEPT !.s.state = "returned"]} : ScrapeStep(x)

\* What sourceContentCache holds when scrapeUrls is called: nothing, a page
\* stored by an earlier call under another spelling of its address, or the
\* error result of an earlier call.
EarlierCaches ==
  { [key \in CacheKeys |-> NoEntry],
    [[key \in CacheKeys |-> NoEntry] EXCEPT !["http://a.org"] = SourceOk("http://A.org/")],
    [[key \in CacheKeys |-> NoEntry] EXCEPT
       !["http://b.org"] = ErrorResult("http://b.org", "fetch failed")] }

ScrapeInit ==
  /\ PipelineInit
  /\ \E urls \in UrlLists : scrape = ScrapeIdle(urls)
  /\ contentCache \in EarlierCaches
  /\ retry = RetryIdle
  /\ gptCache = NoOutput
  /\ keys \in {[scraper |-> TRUE, openai |-> TRUE], [scraper |-> FALSE, openai |-> TRUE]}
  /\ KeyIdle

ScrapeNext ==
  \/ ScrapeUrlsCall
  \/ \E k \in 1..CONCURRENCY : NetworkError(k)
  \/ \E k \in 1..CONCURRENCY : \E ok \in BOOLEAN : Response(k, ok)
  \/ \E k \in 1..CONCURRENCY : BodyText(k)
  \/ \E k \in 1..CONCURRENCY : BodyError(k)
  \/ \E k \in 1..CONCURRENCY : AbortTimer(k)
  \/ ScrapeUrlsReturn

ScrapeSpec == ScrapeInit /\ [][ScrapeNext]_vars

-----------------------------------------------------------------------------
\* verifyWithGPT and verifyWithRetry

\* What the chat completion call of one attempt ends with.
FailureKinds == {"apiError", "empty", "invalidJson", "missingField", "badConfidence"}

Supported == "The sources support the paragraph."
SourceFailed == "Source 1 returned an Error page, so nothing supports the paragraph."

\* A field of the parsed response that is missing or empty: !result.field holds.
Absent == ""

Completion(kind, c, summary, reasoning) ==
  [kind |-> kind, confidence |-> c, summary_of_sources |-> summary,
   reasoning |-> reasoning]

NoResponse == Completion("none", Absent, Absent, Absent)

\* What openai.chat.completions.create settles with: a rejection, no content,
\* text that is no JSON, or a JSON object with some of the three fields.
ModelResponses ==
  {Completion(kind, Absent, Absent, Absent) : kind \in {"apiError", "empty", "invalidJson"}}
    \cup {Completion("json", c, summary, reasoning) :
             c \in Confidence \cup {"certain", Absent},
             summary \in {"1/1 sources", Absent},
             reasoning \in {Supported, SourceFailed, Absent}}

\* Faulty variant of Outcome: the confidence value is not checked.
OutcomeLax(resp) ==
  IF resp.kind # "json" THEN resp.kind
  ELSE IF \/ resp.confidence = Absent
          \/ resp.summary_of_sources = Absent
          \/ resp.reasoning = Absent
       THEN "missingField"
       ELSE "valid"

\* The checks of verifyWithGPT on the response, in their order: the content,
\* JSON.parse, the three fields, the confidence value.
Outcome(resp) ==
  IF resp.kind # "json" THEN resp.kind
  ELSE IF \/ resp.confidence = Absent
          \/ resp.summary_of_sources = Absent
          \/ resp.reasoning = Absent
       THEN "missingField"
       ELSE IF resp.confidence \notin Confidence THEN "badConfidence"
            ELSE "valid"

\* The message of the Error an attempt throws inside verifyWithGPT.
FailureMessage(kind) ==
  CASE kind = "apiError"      -> "Connection error."
    [] kind = "empty"         -> "Empty response from GPT"
    [] kind = "invalidJson"   -> "Unexpected end of JSON input"
    [] kind = "missingField"  -> "Invalid response structure from GPT"
    [] kind = "badConfidence" -> "Invalid confidence value: certain"

ErrorPrefix == "Error during verification: "

\* The catch block of verifyWithGPT.
Fallback(kind) ==
  GptOutput("low", "Verification failed due to an error",
            ErrorPrefix \o FailureMessage(kind))

\* The result returned when OPENAI_API_KEY is not set.
StandIn ==
  GptOutput("low", "OpenAI API key not configured - mock verification result",
            "Cannot perform verification without OpenAI API key.")

\* verificationResult: the three fields of the parsed response.
ValidOutput(resp) ==
  GptOutput(resp.confidence, resp.summary_of_sources, resp.reasoning)

\* reasoning.includes('Error'), over the reasonings that occur.
IncludesError(reasoning) ==
  reasoning \in {ErrorPrefix \o FailureMessage(k) : k \in FailureKinds} \cup {SourceFailed}

\* The call and the cache as one value, threaded through a handler.
Retrying == [r |-> retry, cache |-> gptCache]

\* Faulty variant of FinalOutput: the last error is not reported.
FinalOutputGeneric(lastError) ==
  GptOutput("low", "Verification failed after multiple attempts",
            "Unknown error occurred during verification")

\* The result after the loop: all retries failed.
FinalOutput(lastError) ==
  GptOutput("low", "Verification failed after multiple attempts",
            IF lastError # "" THEN lastError
            ELSE "Unknown error occurred during verification")

\* 2^attempt * 1000 ms
Backoff(attempt) == (2 ^ attempt) * 1000

RECURSIVE Attempt(_)
RECURSIVE AfterAttempt(_, _)

\* The head of the for loop, and verifyWithGPT up to its first suspension: a
\* cache hit and the stand-in are returned at once.
Attempt(y0) == Let(y0, LAMBDA y :
  IF y.r.attempt > MAX_RETRIES
  THEN [y EXCEPT !.r.pc = "returned", !.r.out = FinalOutput(y.r.lastError)]
  ELSE IF y.cache # NoOutput
       THEN AfterAttempt(y, [origin |-> "cache", threw |-> FALSE, resp |-> NoResponse,
                               result |-> y.cache])
       ELSE IF ~keys.openai
            THEN AfterAttempt(y, [origin |-> "standin", threw |-> FALSE,
                                  resp |-> NoResponse, result |-> StandIn])
            ELSE [y EXCEPT !.r.pc = "model"])

\* The body of the for loop after await verifyWithGPT(input). verifyWithGPT
\* catches whatever it throws, so no call has threw set and the catch block
\* with its backoff is never entered.
AfterAttempt(y0, call) == Let(y0, LAMBDA y :
  LET y1 == [y EXCEPT !.r.calls = Append(@, call)]
  IN  IF call.threw
      THEN IF y.r.attempt < MAX_RETRIES
           THEN [y1 EXCEPT !.r.pc = "backoff",
                           !.r.lastError = call.result.reasoning,
                           !.r.waits = Append(@, Backoff(y.r.attempt))]
           ELSE Attempt([y1 EXCEPT !.r.lastError = call.result.reasoning,
                                   !.r.attempt = @ + 1])
      ELSE IF call.result.confidence # "low" \/ ~IncludesError(call.result.reasoning)
           THEN [y1 EXCEPT !.r.pc = "returned", !.r.out = call.result]
           ELSE Attempt([y1 EXCEPT !.r.lastError = call.result.reasoning,
                                   !.r.attempt = @ + 1]))

\* Faulty variant of VerifyWithGPTEnd: the catch block caches what it returns.
VerifyWithGPTEndCacheAll(y, resp) ==
  LET kind == Outcome(resp)
  IN  IF kind = "valid"
      THEN [y |-> [y EXCEPT !.cache = ValidOutput(resp)],
            call |-> [origin |-> "valid", threw |-> FALSE, resp |-> resp,
                      result |-> ValidOutput(resp)]]
      ELSE [y |-> [y EXCEPT !.cache = Fallback(kind)],
            call |-> [origin |-> kind, threw |-> FALSE, resp |-> resp,
                      result |-> Fallback(kind)]]

\* verifyWithGPT after the chat completion call: a validated output is cached
\* and returned, anything else ends in the catch block.
VerifyWithGPTEnd(y, resp) ==
  LET kind == Outcome(resp)
  IN  IF kind = "valid"
      THEN [y |-> [y EXCEPT !.cache = ValidOutput(resp)],
            call |-> [origin |-> "valid", threw |-> FALSE, resp |-> resp,
                      result |-> ValidOutput(resp)]]
      ELSE [y |-> y,
            call |-> [origin |-> kind, threw |-> FALSE, resp |-> resp,
                      result |-> Fallback(kind)]]

RetryStep(y) ==
  /\ retry' = y.r
  /\ gptCache' = y.cache
  /\ UNCHANGED << scrape, contentCache, keys >>
  /\ UNCHANGED keyVars
  /\ UNCHANGED pipelineVars

\* verifyWithRetry(input) is called.
RetryCall ==
  /\ retry.pc = "idle"
  /\ \E y \in {Attempt(Retrying)} : RetryStep(y)

\* openai.chat.completions.create settles.
ModelResponds(resp) ==
  /\ retry.pc = "model"
  /\ \E v \in {VerifyWithGPTEnd(Retrying, resp)} :
       \E y \in {AfterAttempt(v.y, v.call)} : RetryStep(y)

RetryInit ==
  /\ PipelineInit
  /\ scrape = ScrapeIdle(<< >>)
  /\ contentCache = [key \in CacheKeys |-> NoEntry]
  /\ retry = RetryIdle
  /\ gptCache \in {NoOutput, GptOutput("medium", "1/1 sources", Supported)}
  /\ keys \in {[scraper |-> TRUE, openai |-> TRUE], [scraper |-> TRUE, openai |-> FALSE]}
  /\ KeyIdle

RetryNext ==
  \/ RetryCall
  \/ \E resp \in ModelResponses : ModelResponds(resp)

RetrySpec == RetryInit /\ [][RetryNext]_vars

\* The call is made, and every chat completion call settles.
RetryFairSpec == RetryInit /\ [][RetryNext]_vars /\ WF_vars(RetryNext)

-----------------------------------------------------------------------------
\* generateGPTCacheKey

\* Strings are sequences of characters. The characters of the model, in the
\* order of their code units.
Alphabet == << ":", "a", "b", "p", "q", "x", "|" >>

Rank(c) == CHOOSE i \in 1..Len(Alphabet) : Alphabet[i] = c

RECURSIVE Before(_, _)
\* The default comparison of Array.prototype.sort: u sorts before v.
Before(u, v) ==
  IF u = << >> THEN v # << >>
  ELSE IF v = << >> THEN FALSE
  ELSE IF Head(u) # Head(v) THEN Rank(Head(u)) < Rank(Head(v))
  ELSE Before(Tail(u), Tail(v))

RECURSIVE Insert(_, _)
Insert(sorted, u) ==
  IF sorted = << >> THEN << u >>
  ELSE IF Before(u, Head(sorted)) THEN << u >> \o sorted
  ELSE << Head(sorted) >> \o Insert(Tail(sorted), u)

RECURSIVE Sort(_)
\* [...input.paragraph_links].sort()
Sort(list) == IF list = << >> THEN << >> ELSE Insert(Sort(Tail(list)), Head(list))

RECURSIVE Join(_, _)
\* parts.join(sep)
Join(parts, sep) ==
  IF parts = << >> THEN << >>
  ELSE IF Len(parts) = 1 THEN parts[1]
  ELSE parts[1] \o sep \o Join(Tail(parts), sep)

\* s.content.slice(0, 1000)
Snippet(content) == SubSeq(content, 1, Min(SnippetLen, Len(content)))

Snippets(input) == [i \in 1..Len(input.sources) |-> Snippet(input.sources[i].content)]

\* combinedInput: the text, the sorted links and the snippets, joined.
CombinedInput(input) ==
  Join(<< input.paragraph_text,
          Join(Sort(input.paragraph_links), << "|" >>),
          Join(Snippets(input), << "|" >>) >>,
       << ":", ":" >>)

\* The SHA-256 digest of combinedInput, taken to be free of collisions: two
\* keys are equal exactly when the hashed strings are.
GenerateGPTCacheKey(input) == CombinedInput(input)

Texts == { << "p" >>, << "q" >> }
Links == { << "a" >>, << "b" >> }
Contents ==
  { << >>, << "x" >>, << "x", "|", "x" >>, << "x", "x", "x" >>,
    << "x", "x", "x", "x" >> }

\* The gptInput of verifyParagraph: the text, the links and one source per link.
GptInputs ==
  UNION { { [paragraph_text |-> t,
             paragraph_links |-> [i \in 1..n |-> src[i].url],
             sources |-> src] :
            t \in Texts, src \in [1..n -> [url : Links, content : Contents]] } :
          n \in 0..MaxLinks }

\* generateGPTCacheKey is called for both inputs.
GenerateKeys ==
  /\ keyIn # << >>
  /\ keyOut = << >>
  /\ keyOut' = << GenerateGPTCacheKey(keyIn[1]), GenerateGPTCacheKey(keyIn[2]) >>
  /\ UNCHANGED keyIn
  /\ UNCHANGED serviceVars
  /\ UNCHANGED pipelineVars

KeyInit ==
  /\ PipelineInit
  /\ scrape = ScrapeIdle(<< >>)
  /\ contentCache = [key \in CacheKeys |-> NoEntry]
  /\ retry = RetryIdle
  /\ gptCache = NoOutput
  /\ keys = [scraper |-> TRUE, openai |-> TRUE]
  /\ keyIn \in GptInputs \X GptInputs
  /\ keyOut = << >>

KeySpec == KeyInit /\ [][GenerateKeys]_vars

-----------------------------------------------------------------------------
\* normalizeUrl on the characters of a URL

\* A URL is a sequence of characters; the scheme and host count as one.
Origins == {"http://A.org", "http://a.org"}
TailChars == {"/", "p", "P", "?", "#"}

Tails == UNION {[1..n -> TailChars] : n \in 0..MaxTail}

\* The strings handed to normalizeUrl: an origin followed by a path, a query
\* and a fragment, and strings without scheme, which new URL(url) rejects.
UrlStrings ==
  {<< "http://A.org" >> \o t : t \in {x \in Tails : x = << >> \/ x[1] \in {"/", "?", "#"}}}
    \cup {t \in Tails : t # << >> /\ t[1] \in {"p", "P"}}

\* toLowerCase, character by character.
LowerChar(ch) == IF ch = "P" THEN "p" ELSE IF ch = "http://A.org" THEN "http://a.org" ELSE ch
ToLowerCase(str) == [i \in 1..Len(str) |-> LowerChar(str[i])]

\* The first position of ch in str, 0 for none.
FirstOf(str, ch) ==
  IF \E i \in 1..Len(str) : str[i] = ch
  THEN CHOOSE i \in 1..Len(str) : str[i] = ch /\ \A k \in 1..(i - 1) : str[k] # ch
  ELSE 0

\* new URL(url): the fragment is what follows the first '#', the query what
\* follows the first '?' before it, the path the rest, '/' when that is empty;
\* the host is put in lower case, the path and the query are kept as written.
ParseUrl(str) ==
  IF str = << >> \/ str[1] \notin Origins
  THEN [valid |-> FALSE, origin |-> "", path |-> << >>, hasQuery |-> FALSE, query |-> << >>,
        hasHash |-> FALSE, hash |-> << >>]
  ELSE LET rest == Tail(str)
           h    == FirstOf(rest, "#")
           head == IF h = 0 THEN rest ELSE SubSeq(rest, 1, h - 1)
           q    == FirstOf(head, "?")
           path == IF q = 0 THEN head ELSE SubSeq(head, 1, q - 1)
       IN  [valid |-> TRUE,
            origin |-> LowerChar(str[1]),
            path |-> IF path = << >> THEN << "/" >> ELSE path,
            hasQuery |-> q > 0,
            query |-> IF q = 0 THEN << >> ELSE SubSeq(head, q + 1, Len(head)),
            hasHash |-> h > 0,
            hash |-> IF h = 0 THEN << >> ELSE SubSeq(rest, h + 1, Len(rest))]

\* parsed.toString()
UrlToString(u) ==
  (<< u.origin >> \o u.path)
    \o (IF u.hasQuery THEN << "?" >> \o u.query ELSE << >>)
    \o (IF u.hasHash THEN << "#" >> \o u.hash ELSE << >>)

NormalizeUrlText(url) ==
  LET parsed == ParseUrl(url)
  IN  IF ~parsed.valid THEN ToLowerCase(url)
      ELSE LET normalized ==
                 ToLowerCase(UrlToString([parsed EXCEPT !.hasHash = FALSE, !.hash = << >>]))
           IN  IF normalized[Len(normalized)] = "/"
               THEN SubSeq(normalized, 1, Len(normalized) - 1)
               ELSE normalized

\* normalizeUrl is called for both URLs, and again for each key it returned.
NormalizeUrls ==
  /\ keyIn # << >>
  /\ keyOut = << >>
  /\ keyOut' = [i \in 1..2 |->
                 [key |-> NormalizeUrlText(keyIn[i]),
                  again |-> NormalizeUrlText(NormalizeUrlText(keyIn[i]))]]
  /\ UNCHANGED keyIn
  /\ UNCHANGED serviceVars
  /\ UNCHANGED pipelineVars

UrlInit ==
  /\ PipelineInit
  /\ scrape = ScrapeIdle(<< >>)
  /\ contentCache = [key \in CacheKeys |-> NoEntry]
  /\ retry = RetryIdle
  /\ gptCache = NoOutput
  /\ keys = [scraper |-> TRUE, openai |-> TRUE]
  /\ keyIn \in UrlStrings \X UrlStrings
  /\ keyOut = << >>

UrlSpec == UrlInit /\ [][NormalizeUrls]_vars

-----------------------------------------------------------------------------
\* Properties

IsTerminal(s) == s \in {"completed", "failed"}
JobsOf(d) == 1..Len(jobs[d])
HasResult(d, pid) == \E k \in 1..Len(results[d]) : results[d][k].paragraph_id = pid
ResultOf(d, pid) ==
  results[d][CHOOSE k \in 1..Len(results[d]) : results[d][k].paragraph_id = pid]
Settled(d) ==
  /\ Len(jobs[d]) = Len(Paragraphs(d))
  /\ \A i \in JobsOf(d) : IsTerminal(jobs[d][i].status)

\* C1: the completion subscribers are notified exactly once per doc_id, and after
\* that notification no job of the document is anything but completed or failed
\* (stated for a doc_id submitted once, whatever was cancelled).
C1_CompletionExactlyOnce ==
  \A d \in Docs :
    submitted[d] = 1 =>
      /\ completeCount[d] <= 1
      /\ completeCount[d] = 1 =>
           /\ jobs[d] # << >>
           /\ \A i \in JobsOf(d) : IsTerminal(jobs[d][i].status)

\* C2: the only status changes that ever occur are pending -> in_progress,
\* pending -> failed, in_progress -> completed and in_progress -> failed; nothing
\* leaves completed or failed (stated for runs of doc_ids submitted once each).
C2_TerminalIsFinal ==
  (\A d \in Docs : submitted[d] <= 1) =>
  transitions \subseteq { << "pending", "in_progress" >>, << "pending", "failed" >>,
                          << "in_progress", "completed" >>,
                          << "in_progress", "failed" >> }

\* C3: a completion notification for a document finds at least one job, finds
\* every job completed or failed, and directly follows the update or error
\* notification of a paragraph of the same document.
C3_CompletionAfterAllTerminal ==
  \A k \in 1..Len(emitted) :
    emitted[k].type = "complete" =>
      /\ Len(emitted[k].seen) >= 1
      /\ \A i \in 1..Len(emitted[k].seen) : IsTerminal(emitted[k].seen[i])
      /\ k > 1
      /\ emitted[k - 1].type \in {"update", "error"}
      /\ emitted[k - 1].doc = emitted[k].doc

C3_Witness ==
  /\ \E k \in 1..Len(emitted) :
       /\ emitted[k].type = "complete"
       /\ Len(emitted[k].seen) = 2
       /\ \E i \in 1..2 : emitted[k].seen[i] = "failed"
       /\ emitted[k - 1].type = "update"
  /\ lastOp.op = "verified"

\* C4: once a document has been submitted, its run reaches a state in which
\* getJobs(doc_id) has one entry per paragraph, each completed or failed.
C4_RunSettles ==
  \A d \in Docs : (submitted[d] > 0) ~> Settled(d)

C4_Witness ==
  \E d \in Docs :
    /\ submitted[d] = 1
    /\ Settled(d)
    /\ Len(jobs[d]) = 2
    /\ \E i \in JobsOf(d) : jobs[d][i].status = "failed"
    /\ \E i \in JobsOf(d) : jobs[d][i].status = "completed"
    /\ runs = << >>

\* C5: a subscriber registered from the start receives exactly one update per
\* paragraph: never two, and never none for a paragraph with a stored result.
C5_OneUpdatePerParagraph ==
  \A d \in Docs : \A p \in Pids(d) :
    /\ updateCount[d][p] <= 1
    /\ HasResult(d, p) => updateCount[d][p] >= 1

\* C6: getResults(doc_id) holds at most one result per paragraph_id, the payload
\* of the most recent storeResult call for that key.
C6_OneLatestResult ==
  \A d \in Docs :
    /\ \A k1, k2 \in 1..Len(results[d]) :
         results[d][k1].paragraph_id = results[d][k2].paragraph_id => k1 = k2
    /\ \A p \in Pids(d) :
         IF stored[d][p] = << >>
         THEN ~HasResult(d, p)
         ELSE /\ HasResult(d, p)
              /\ \A k \in 1..Len(results[d]) :
                   results[d][k].paragraph_id = p =>
                     /\ results[d][k].doc_id = d
                     /\ results[d][k].confidence =
                          stored[d][p][Len(stored[d][p])].confidence
                     /\ results[d][k].link_digests =
                          stored[d][p][Len(stored[d][p])].link_digests

C6_Witness ==
  \E d \in Docs : \E p \in Pids(d) :
    /\ Len(stored[d][p]) = 2
    /\ stored[d][p][1].confidence # stored[d][p][2].confidence
    /\ Len(results[d]) = 2
    /\ ResultOf(d, p).confidence = stored[d][p][2].confidence

C8_CancelFrame ==
  [][ (cancels' = cancels + 1) =>
        LET d == lastOp'.doc
        IN  /\ lastOp'.op = "cancel"
            /\ results' = results
            /\ \A e \in Docs \ {d} : jobs'[e] = jobs[e]
            /\ Len(jobs'[d]) = Len(jobs[d])
            /\ \A i \in JobsOf(d) :
                 IF jobs[d][i].status = "pending"
                 THEN jobs'[d][i] = [jobs[d][i] EXCEPT !.status = "failed",
                                                       !.error = CancelMessage]
                 ELSE jobs'[d][i] = jobs[d][i] ]_vars

C8_Witness ==
  /\ lastOp.op = "cancel"
  /\ \E i \in JobsOf(lastOp.doc) :
       /\ jobs[lastOp.doc][i].status = "failed"
       /\ jobs[lastOp.doc][i].error = CancelMessage
  /\ \E i \in JobsOf(lastOp.doc) : jobs[lastOp.doc][i].status = "in_progress"
  /\ \E e \in Docs \ {lastOp.doc} : \E i \in JobsOf(e) :
       jobs[e][i].status = "in_progress"

\* C9: a cancel that finds pending jobs and one in_progress job emits no
\* completion itself, and from then on the document's completion is emitted once.
C9_CancelThenOneCompletion ==
  \A d \in Docs :
    (submitted[d] = 1 /\ cancelSnap[d] # -1) =>
      /\ completeCount[d] - cancelSnap[d] <= 1
      /\ (lastOp = [op |-> "cancel", doc |-> d]) =>
           \A k \in 1..Len(emitted) : emitted[k].type # "complete"

\* C10: a heading paragraph is never handed to scrapeUrls or verifyWithRetry; a
\* run that has passed it has stored a result with confidence high and no link
\* digests, the subscriber has been notified, and the job is never left
\* in_progress.
C10_HeadingBypass ==
  \A d \in Docs : \A i \in Pids(d) :
    Paragraphs(d)[i].isHeading =>
      LET pid == Paragraphs(d)[i].id
      IN  /\ << d, pid >> \notin scrapeCalls
          /\ << d, pid >> \notin gptCalls
          /\ \A k \in 1..Len(results[d]) :
               results[d][k].paragraph_id = pid =>
                 /\ results[d][k].confidence = "high"
                 /\ results[d][k].link_digests = 0
          /\ \A j \in JobsOf(d) :
               jobs[d][j].pid = pid => jobs[d][j].status # "in_progress"
          /\ \A r \in 1..Len(runs) :
               (runs[r].doc = d /\ runs[r].pc[i] = "done") =>
                 HasResult(d, pid) /\ updateCount[d][pid] >= 1
          /\ HasResult(d, pid) <=> updateCount[d][pid] >= 1

C10_Witness ==
  \E d \in Docs : \E i \in Pids(d) :
    /\ Paragraphs(d)[i].isHeading
    /\ HasResult(d, i)
    /\ ResultOf(d, i).confidence = "high"
    /\ \E j \in JobsOf(d) : jobs[d][j].pid = i /\ jobs[d][j].status = "completed"
    /\ \E q \in Pids(d) :
         /\ << d, q >> \in gptCalls
         /\ HasResult(d, q)
         /\ ResultOf(d, q).link_digests > 0

\* The paragraph whose storeError call a step of verifyParagraph's catch block made.
Thrown(d, p) ==
  /\ lastOp'.op = "threw"
  /\ lastOp'.doc = d
  /\ errorCount'[d][p] = errorCount[d][p] + 1

C12_FailedHasError ==
  \A d \in Docs : \A i \in JobsOf(d) :
    jobs[d][i].status = "failed" =>
      /\ jobs[d][i].error # ""
      /\ jobs[d][i].error \in {ErrorMessage, CancelMessage}

C12_Witness ==
  \E d \in Docs : \E i, j \in JobsOf(d) :
    /\ jobs[d][i].status = "failed"
    /\ jobs[d][i].error = ErrorMessage
    /\ jobs[d][j].status = "failed"
    /\ jobs[d][j].error = CancelMessage

ErrorEvents(em) == {k \in 1..Len(em) : em[k].type = "error"}

\* C13: every storeError call (one in the catch block of verifyParagraph, one
\* per pending job in cancelVerification) notifies the error once with its
\* doc_id, paragraph_id and message, the job being failed by then, and is
\* followed at once by the completion notification exactly when it leaves every
\* job of the document completed or failed.
C13_StoreErrorNotifies ==
  [][ LET d == lastOp'.doc
          E == ErrorEvents(emitted')
      IN  /\ lastOp'.op \notin {"threw", "cancel"} => E = {}
          /\ (lastOp'.op = "threw" /\ errorCount' # errorCount) =>
               /\ Cardinality(E) = 1
               /\ \A k \in E :
                    /\ emitted'[k].doc = d
                    /\ emitted'[k].msg = ErrorMessage
                    /\ errorCount' = [errorCount EXCEPT ![d][emitted'[k].pid] = @ + 1]
          /\ (cancels' = cancels + 1) =>
               /\ \A k \in E : emitted'[k].doc = d /\ emitted'[k].msg = CancelMessage
               /\ \A i \in JobsOf(d) :
                    Cardinality({k \in E : emitted'[k].pid = jobs[d][i].pid}) =
                      IF jobs[d][i].status = "pending" THEN 1 ELSE 0
               /\ \A p \in Pids(d) :
                    errorCount'[d][p] - errorCount[d][p] =
                      Cardinality({k \in E : emitted'[k].pid = p})
          /\ \A k \in E :
               /\ emitted'[k].seen[emitted'[k].pid] = "failed"
               /\ (\A i \in 1..Len(emitted'[k].seen) : IsTerminal(emitted'[k].seen[i]))
                    <=> /\ k < Len(emitted')
                        /\ emitted'[k + 1].type = "complete"
                        /\ emitted'[k + 1].doc = emitted'[k].doc ]_vars

C13_Witness ==
  /\ lastOp.op = "threw"
  /\ Len(emitted) = 2
  /\ emitted[1].type = "error"
  /\ emitted[1].msg = ErrorMessage
  /\ emitted[1].doc = lastOp.doc
  /\ emitted[2].type = "complete"
  /\ emitted[2].doc = lastOp.doc
  /\ \E i \in 1..Len(emitted[2].seen) : emitted[2].seen[i] = "completed"
  /\ errorCount[lastOp.doc][emitted[1].pid] = 1

Capped == Min(SCRAPE_LIMIT, Len(scrape.urls))
InFlight == {k \in 1..Len(scrape.workers) : scrape.workers[k].state \in {"fetch", "body"}}
Returning == scrape.state \in {"settling", "returned"}

\* C14: whatever the order in which the fetches complete, every filled slot i of
\* the results array holds the SourceContent of urls[i] (of its normalized
\* address), and the array scrapeUrls returns has min(5, |urls|) slots, none of
\* them unfilled.
C14_ResultsInInputOrder ==
  /\ scrape.state # "idle" => Len(scrape.slots) = Capped
  /\ \A i \in 1..Len(scrape.slots) :
       /\ Returning => scrape.slots[i] # Hole
       /\ scrape.slots[i] # Hole =>
            NormalizeUrl(scrape.slots[i].url) = NormalizeUrl(scrape.urls[i])

C14_Witness ==
  /\ scrape.state = "running"
  /\ Len(scrape.urls) > SCRAPE_LIMIT
  /\ scrape.slots[1] = Hole
  /\ scrape.slots[4] = SourceOk(scrape.urls[4])
  /\ scrape.slots[5].error = "fetch failed"
  /\ scrape.slots[5].url = scrape.urls[5]

C16_FailureIsAResult ==
  \A i \in 1..Len(scrape.slots) :
    /\ scrape.failures[i] # NoError =>
         scrape.slots[i] = ErrorResult(scrape.urls[i], scrape.failures[i])
    /\ Returning =>
         /\ scrape.slots[i] # Hole
         /\ (scrape.failures[i] = NoError /\ keys.scraper
               /\ scrape.before[i] = NoEntry) =>
              scrape.slots[i] = SourceOk(scrape.urls[i])

C16_Witness ==
  /\ scrape.state = "returned"
  /\ \E i, j, k, l \in 1..Len(scrape.slots) :
       /\ scrape.failures[i] = "Invalid URL"
       /\ scrape.failures[j] = "ScrapingBee API error"
       /\ scrape.failures[k] = "body failed"
       /\ scrape.slots[k].content = ""
       /\ scrape.slots[k].error = "body failed"
       /\ scrape.failures[l] = NoError
       /\ scrape.slots[l].content = "page"

\* C17: once the timeout of a source fetch has fired, that fetch is no longer
\* pending: the timeout has ended it.
C17_TimeoutEndsFetch ==
  \A k \in 1..Len(scrape.workers) :
    scrape.workers[k].timer = "fired" => scrape.workers[k].state # "fetch"

AttemptFailed(call) == call.origin \in FailureKinds
AttemptsStarted == Len(retry.calls) + (IF retry.pc = "model" THEN 1 ELSE 0)

C18_Bounded ==
  /\ retry.pc \in {"idle", "model", "returned"}
  /\ Len(retry.calls) <= 3
  /\ retry.pc = "returned" =>
       /\ retry.out # NoOutput
       /\ (\A n \in 1..Len(retry.calls) : AttemptFailed(retry.calls[n])) =>
            /\ Len(retry.calls) = 3
            /\ retry.out.confidence = "low"
            /\ retry.out.reasoning =
                 ErrorPrefix \o FailureMessage(retry.calls[3].origin)

\* C18: verifyWithRetry never ends by throwing, calls verifyWithGPT at most 3
\* times, returns once its chat completion calls have settled, and when every
\* attempt failed returns confidence low with the error message of the last
\* attempt as reasoning.
C18_RetryTerminates ==
  /\ []C18_Bounded
  /\ (retry.pc = "model") ~> (retry.pc = "returned")

C18_Witness ==
  /\ retry.pc = "returned"
  /\ Len(retry.calls) = 3
  /\ retry.calls[1].origin = "apiError"
  /\ retry.calls[2].origin = "invalidJson"
  /\ retry.calls[3].origin = "empty"
  /\ retry.out.reasoning = ErrorPrefix \o "Empty response from GPT"
  /\ retry.out.summary_of_sources = "Verification failed after multiple attempts"

\* C19: a backoff wait precedes every attempt but the first: 1000 ms before the
\* second attempt and 2000 ms before the third.
C19_BackoffBetweenAttempts ==
  \A n \in 1..(AttemptsStarted - 1) :
    /\ Len(retry.waits) >= n
    /\ retry.waits[n] = (2 ^ (n - 1)) * 1000

\* C20: an attempt that returns a validated model output, a cache hit or the
\* stand-in for the missing API key is the last attempt, and its result is what
\* verifyWithRetry returns.
C20_ValidResultReturned ==
  \A n \in 1..Len(retry.calls) :
    retry.calls[n].origin \in {"valid", "cache", "standin"} =>
      /\ retry.pc = "returned"
      /\ Len(retry.calls) = n
      /\ retry.out = retry.calls[n].result

ValidatedOutputs ==
  {GptOutput(c, summary, reasoning) :
     c \in Confidence, summary \in {"1/1 sources"},
     reasoning \in {Supported, SourceFailed}}

\* C21: every entry of the verification-output cache is a model output that
\* passed the field and enum validation; the stand-in for the missing API key and
\* the fallback of the catch block are never written, and the cache is written
\* only by an attempt whose response was validated, with that response's fields.
C21_CacheHoldsValidated ==
  /\ [](gptCache # NoOutput =>
          /\ gptCache \in ValidatedOutputs
          /\ gptCache # StandIn
          /\ \A kind \in FailureKinds : gptCache # Fallback(kind))
  /\ [][ gptCache' # gptCache =>
            LET call == retry'.calls[Len(retry.calls) + 1]
            IN  /\ Len(retry'.calls) > Len(retry.calls)
                /\ call.resp.kind = "json"
                /\ call.resp.confidence \in Confidence
                /\ call.resp.summary_of_sources # Absent
                /\ call.resp.reasoning # Absent
                /\ gptCache' = GptOutput(call.resp.confidence,
                                         call.resp.summary_of_sources,
                                         call.resp.reasoning) ]_vars

C21_Witness ==
  /\ Len(retry.calls) = 3
  /\ retry.calls[1].result = Fallback("badConfidence")
  /\ retry.calls[2].result = Fallback("missingField")
  /\ retry.calls[3].origin = "valid"
  /\ gptCache = retry.calls[3].result
  /\ gptCache.confidence = "low"

\* The responses C23 speaks of: no content, no JSON, a missing field, a
\* confidence outside the three values.
Malformed(resp) ==
  \/ resp.kind \in {"empty", "invalidJson"}
  \/ /\ resp.kind = "json"
     /\ \/ Absent \in {resp.confidence, resp.summary_of_sources, resp.reasoning}
        \/ resp.confidence \notin {"high", "medium", "low"}

BuiltFrom(resp) == GptOutput(resp.confidence, resp.summary_of_sources, resp.reasoning)

\* C23: an attempt whose model response is empty, no JSON, lacks one of the three
\* fields or has a confidence outside {high, medium, low} returns the error
\* fallback and never an output built from the fields of the response;
\* verifyWithRetry does not return that attempt's result as a verdict: it starts
\* another attempt, or, after the third, returns the failure of all attempts.
C23_MalformedIsRetried ==
  \A n \in 1..Len(retry.calls) :
    LET call == retry.calls[n]
    IN  Malformed(call.resp) =>
          /\ call.result # BuiltFrom(call.resp)
          /\ call.result.confidence = "low"
          /\ call.result.summary_of_sources = "Verification failed due to an error"
          /\ retry.out # BuiltFrom(call.resp)
          /\ gptCache # BuiltFrom(call.resp)
          /\ n <= MAX_RETRIES => AttemptsStarted > n
          /\ n = MAX_RETRIES + 1 =>
               /\ retry.pc = "returned"
               /\ retry.out.summary_of_sources =
                    "Verification failed after multiple attempts"

C23_Witness ==
  /\ retry.pc = "returned"
  /\ Len(retry.calls) = 3
  /\ retry.calls[1].resp = Completion("json", "certain", "1/1 sources", Supported)
  /\ retry.calls[1].result = Fallback("badConfidence")
  /\ retry.calls[2].resp = Completion("json", "high", "1/1 sources", Absent)
  /\ retry.calls[3].resp.kind = "empty"
  /\ retry.out.confidence = "low"
  /\ retry.out.summary_of_sources = "Verification failed after multiple attempts"

\* C22: the source-content cache holds no SourceContent whose error field is
\* populated: neither the error result of a failed fetch nor the mock result of
\* the unconfigured scraper is cached.
C22_NoErrorCached ==
  [][ \A key \in CacheKeys :
        contentCache'[key] # contentCache[key] => contentCache'[key].error = NoError ]_vars

\* C24: when the cache holds an entry under normalizeUrl(url) at the call of
\* scrapeUrl(url), the call sends no request and returns that entry; a request
\* is sent only after the lookup under the normalized address missed.
C24_HitSkipsFetch ==
  \A i \in 1..Len(scrape.slots) :
    /\ scrape.before[i] # NoEntry =>
         /\ scrape.fetches[i] = 0
         /\ scrape.taken[i] = 1 => scrape.slots[i] = scrape.before[i]
         /\ \A k \in InFlight : scrape.workers[k].item.index # i
    /\ scrape.fetches[i] > 0 => scrape.before[i] = NoEntry
    /\ (\E k \in InFlight : scrape.workers[k].item.index = i) =>
         /\ scrape.fetches[i] = 1
         /\ scrape.before[i] = NoEntry

C24_Witness ==
  /\ scrape.state = "returned"
  /\ keys.scraper
  /\ \E i, j \in 1..Len(scrape.slots) :
       /\ scrape.urls[i] = "http://a.org"
       /\ scrape.before[i] = SourceOk("http://A.org/")
       /\ scrape.slots[i] = SourceOk("http://A.org/")
       /\ scrape.fetches[i] = 0
       /\ scrape.urls[j] = "http://b.org"
       /\ scrape.before[j] = NoEntry
       /\ scrape.fetches[j] = 1
       /\ scrape.slots[j] = SourceOk("http://b.org")

SameText == keyIn[1].paragraph_text = keyIn[2].paragraph_text

LinkSet(input) == {input.paragraph_links[i] : i \in 1..Len(input.paragraph_links)}

\* C27: generateGPTCacheKey gives one key to two inputs with the same text, the
\* same set of links in any order and the same snippets, and different keys to
\* two inputs whose snippets differ, be it in one source only. The snippets are
\* compared as the lists they are, the reading that asks least of the key.
C27_KeyDeterminism ==
  keyOut # << >> =>
    /\ (/\ SameText
        /\ LinkSet(keyIn[1]) = LinkSet(keyIn[2])
        /\ Snippets(keyIn[1]) = Snippets(keyIn[2])) => keyOut[1] = keyOut[2]
    /\ Snippets(keyIn[1]) # Snippets(keyIn[2]) => keyOut[1] # keyOut[2]

\* A job that has been started: it is in_progress or has ended (no run is
\* cancelled here, so a failed job was started too).
Started(job) == job.status # "pending"

\* C30: in sequential mode the jobs of a document are started in input order,
\* the job of paragraph i+1 only once the job of paragraph i is completed or
\* failed, and a document never has more than one job in_progress, also when
\* its doc_id is submitted by the ingest route and then by a 'verify' request.
C30_OneAtATime ==
  \A d \in Stores :
    /\ Cardinality(InProgress(jobs[d])) <= 1
    /\ \A i \in 1..(Len(jobs[d]) - 1) :
         Started(jobs[d][i + 1]) => jobs[d][i].status \in {"completed", "failed"}

Registered(t) == {listeners[t][k] : k \in 1..Len(listeners[t])}
Called(c, t) == IF c \in Registered(t) THEN 1 ELSE 0

\* C28: in a storeResult or storeError call during which a subscriber callback
\* throws, every listener registered for the update or error event is called
\* once, the call ends as it does without the exception (the job is completed
\* or failed, the result stored, the other jobs untouched), the completion
\* check runs (completion is notified exactly when every job has ended), and
\* every completion listener is called once when no completion callback
\* unsubscribes meanwhile.
C28_ThrowIsContained ==
  [][ LET d == lastOp'.doc
          t == IF lastOp'.op = "storeResult" THEN "update" ELSE "error"
          ev == emitted'[1]
          i == FindJob(jobs[d], ev.pid)
          completes == \E k \in 1..Len(emitted') : emitted'[k].type = "complete"
          faulty == {c \in Clients : clients[c].kind = "throws"}
          leaving == {c \in Registered("complete") :
                        clients[c].kind = "socket" /\ clients[c].doc = d}
      IN  (/\ lastOp'.op \in {"storeResult", "storeError"}
           /\ faulty \cap Registered(t) # {}) =>
            /\ Len(emitted') >= 1 /\ ev.type = t /\ ev.doc = d
            /\ \A c \in Clients : received'[c][t] = received[c][t] + Called(c, t)
            /\ i # 0
            /\ jobs'[d] = [jobs[d] EXCEPT ![i].status =
                                            IF t = "update" THEN "completed" ELSE "failed",
                                          ![i].error =
                                            IF t = "update" THEN @ ELSE ErrorMessage]
            /\ t = "update" => FindResult(results'[d], ev.pid) # 0
            /\ t = "error" => results' = results
            /\ completes <=> \A k \in 1..Len(jobs'[d]) :
                               jobs'[d][k].status \in {"completed", "failed"}
            /\ \A c \in Clients :
                 /\ ~completes => received'[c]["complete"] = received[c]["complete"]
                 /\ (completes /\ leaving = {}) =>
                      received'[c]["complete"] =
                        received[c]["complete"] + Called(c, "complete") ]_vars

C28_Witness ==
  /\ lastOp = [op |-> "storeResult", doc |-> "d1"]
  /\ clients[1].kind = "throws"
  /\ clients[2].kind = "plain"
  /\ listeners["update"] = << 1, 2 >>
  /\ Len(emitted) = 2
  /\ emitted[2].type = "complete"
  /\ received[1]["update"] = 2
  /\ received[2]["update"] = 2
  /\ received[1]["complete"] = 1
  /\ received[2]["complete"] = 1
  /\ \A i \in 1..Len(jobs["d1"]) : jobs["d1"][i].status = "completed"

\* C29: a listener whose unsubscribe handle has been called is no longer
\* registered and is not called again; a handle call, the first or a repeated
\* one, removes no listener but its own, and the listeners that stay keep their
\* order.
C29_UnsubscribeRemovesOnlyItself ==
  /\ [](\A c \in Clients : \A t \in EventTypes :
          handles[c][t] > 0 => c \notin Registered(t))
  /\ [][ \A t \in EventTypes :
            /\ \A c \in Clients :
                 handles[c][t] > 0 => received'[c][t] = received[c][t]
            /\ lastOp'.op # "subscribe" =>
                 listeners'[t] =
                   SelectSeq(listeners[t], LAMBDA c : handles'[c][t] = handles[c][t]) ]_vars

C29_Witness ==
  /\ lastOp.op = "storeResult"
  /\ handles[1]["update"] = 2
  /\ listeners["update"] = << 2 >>
  /\ listeners["complete"] = << 1, 2 >>
  /\ received[1]["update"] = 0
  /\ received[2]["update"] = 1

-----------------------------------------------------------------------------
Done(run) == Cardinality({i \in DOMAIN run.pc : run.pc[i] = "done"})
Begun(run) == Cardinality({i \in DOMAIN run.pc : run.pc[i] # "wait"})
Delayed(run) == run.sequential /\ ToNumber(run.delay) > 0

\* C31: a sequential run with delayMs > 0 over k paragraphs waits delayMs after
\* each of its first k-1 paragraphs and starts the next paragraph only when the
\* delay is over; it waits after no other paragraph, so not after the last one.
\* A run without delay never waits.
C31_DelayBetweenParagraphs ==
  \A r \in 1..Len(runs) :
    LET run == runs[r]
        k   == Len(Paragraphs(run.doc))
    IN  IF Delayed(run)
        THEN /\ Len(run.timers) = Done(run)
             /\ Len(run.timers) <= k - 1
             /\ \A j \in 1..Len(run.timers) : run.timers[j] = ToNumber(run.delay)
             /\ \A i \in DOMAIN run.pc :
                  run.pc[i] # "wait" => \A h \in 1..(i - 1) : run.pc[h] = "done"
             /\ run.sleeping => Begun(run) = Done(run)
             /\ ~run.sleeping => Begun(run) = Done(run) + 1
        ELSE run.timers = << >> /\ ~run.sleeping

\* The second paragraph of a delayed run has started, after one delay.
C31_Witness ==
  \E r \in 1..Len(runs) :
    /\ Delayed(runs[r])
    /\ runs[r].pc[2] = "scrape"
    /\ runs[r].timers = << ToNumber(runs[r].delay) >>
    /\ ~runs[r].sleeping

-----------------------------------------------------------------------------
\* C36: the run started by startVerificationJob(doc_id, paragraphs, true, 1000),
\* the call of the 'verify' handler and of the test endpoint, is a sequential
\* run with a delay of 1000 ms between paragraphs.
C36_ModeAndDelayAsSupplied ==
  lastOp.op = "verify" /\ runs # << >> =>
    /\ runs[Len(runs)].sequential
    /\ ToNumber(runs[Len(runs)].delay) = 1000

-----------------------------------------------------------------------------
\* The paragraphs that are no headings and cite nothing.
NoLinks(d) == {i \in Pids(d) : ~Paragraphs(d)[i].isHeading /\ Paragraphs(d)[i].nlinks = 0}

\* C35: a paragraph that is no heading and has no links is not skipped: its
\* result is stored only when verifyWithRetry has returned for it, after
\* scrapeUrls was called for it; the result has no link digest, the job is then
\* completed, no error is ever stored for it, and once it has been handed to
\* scrapeUrls its job does become completed with a stored result.
C35_EmptyLinkListIsVerified ==
  /\ [][\A d \in Stores : \A i \in NoLinks(d) :
          /\ errorCount'[d][i] = 0
          /\ Len(stored'[d][i]) > Len(stored[d][i]) =>
               /\ lastOp'.op = "verified"
               /\ << d, i >> \in scrapeCalls
               /\ << d, i >> \in gptCalls
               /\ stored'[d][i][Len(stored'[d][i])].link_digests = 0
               /\ FindResult(results'[d], i) > 0
               /\ StatusOf(jobs'[d], i) = "completed"]_vars
  /\ \A d \in SeqDocs : \A i \in NoLinks(d) :
       (<< d, i >> \in scrapeCalls)
         ~> (StatusOf(jobs[d], i) = "completed" /\ FindResult(results[d], i) > 0)

\* The paragraph without links has its verdict stored, with no link digest.
C35_Witness ==
  \E d \in SeqDocs : \E i \in NoLinks(d) :
    /\ << d, i >> \in gptCalls
    /\ stored[d][i] # << >>
    /\ stored[d][i][1].link_digests = 0
    /\ StatusOf(jobs[d], i) = "completed"
    /\ lastOp.op = "verified"

-----------------------------------------------------------------------------
\* C32: startVerificationJob returns to its caller without an exception and
\* without having waited for a fetch or a model call: when the 'verify' handler
\* has run, the paragraphs of the new run that are done are headings and none
\* has reached the model; every socket that sent a request has been sent
\* exactly one verification_started, whatever became of its run; and a run that
\* failed was caught and logged, never left as an unhandled rejection.
C32_StartReturnsAtOnce ==
  /\ \A r \in 1..Len(runs) : runs[r].outcome # "unhandled"
  /\ \A c \in Clients :
       clients[c].kind = "socket" =>
         Len(SelectSeq(delivered[c], LAMBDA e : e.type = "started")) = 1
  /\ lastOp.op = "request" /\ runs # << >> =>
       LET run == runs[Len(runs)]
       IN  /\ run.doc = lastOp.doc
           /\ \A i \in DOMAIN run.pc :
                /\ run.pc[i] # "gpt"
                /\ run.pc[i] = "done" => Paragraphs(run.doc)[i].isHeading

\* A run has failed in the background and was logged; its socket had its
\* acknowledgement.
C32_Witness ==
  \E r \in 1..Len(runs) : \E c \in Clients :
    /\ runs[r].outcome = "logged"
    /\ clients[c].kind = "socket"
    /\ clients[c].doc = runs[r].doc
    /\ \E j \in 1..Len(delivered[c]) : delivered[c][j].type = "started"
    /\ lastOp.op = "woke"

-----------------------------------------------------------------------------
\* What socket c has been sent: the events of its doc_id and its acknowledgement.
SocketMessages(c) == SelectSeq(delivered[c], LAMBDA e : e.doc = clients[c].doc)

\* C40: a socket is sent verification_started before any verification_update
\* or verification_complete of its request.
C40_StartedComesFirst ==
  \A c \in Clients :
    clients[c].kind = "socket" =>
      LET msgs == SocketMessages(c)
      IN  \A j \in 1..Len(msgs) :
            msgs[j].type \in {"update", "complete"} =>
              \E h \in 1..(j - 1) : msgs[h].type = "started"

-----------------------------------------------------------------------------
Updates(log) == SelectSeq(log, LAMBDA e : e.type = "update")

\* C33: every storeResult call delivers its update, inside the call, to every
\* subscriber registered for updates, as the next update that subscriber
\* receives; no update is delivered at any other time or to anyone else. So
\* every subscriber receives the updates in the order of the storeResult calls.
C33_UpdatesInCallOrder ==
  [][/\ \A d \in Stores : \A pid \in Pids(d) :
          updateCount'[d][pid] # updateCount[d][pid] =>
            /\ updateCount'[d][pid] = updateCount[d][pid] + 1
            /\ lastOp'.op = "storeResult"
            /\ \A c \in Clients :
                 Updates(delivered'[c]) =
                   IF c \in Registered("update")
                   THEN Append(Updates(delivered[c]),
                               [type |-> "update", doc |-> d, pid |-> pid])
                   ELSE Updates(delivered[c])
     /\ updateCount' = updateCount =>
          \A c \in Clients : Updates(delivered'[c]) = Updates(delivered[c])]_vars

\* The second of two subscribers has received the updates of two storeResult
\* calls, the one of paragraph 2 first.
C33_Witness ==
  \E c \in Clients : \E d \in Docs :
    /\ IndexOf(listeners["update"], c) = 2
    /\ Updates(delivered[c]) = << [type |-> "update", doc |-> d, pid |-> 2],
                                  [type |-> "update", doc |-> d, pid |-> 1] >>

-----------------------------------------------------------------------------
\* C39: a completion notification calls every listener that is registered for
\* completion when the notification starts.
C39_CompletionReachesEverySubscriber ==
  [][\A d \in Stores :
       completeCount'[d] = completeCount[d] + 1 =>
         \A c \in Registered("complete") :
           received'[c]["complete"] = received[c]["complete"] + 1]_vars

-----------------------------------------------------------------------------
\* C34: after createJobs(d, paragraphs) the job list of d has one pending job
\* per paragraph, in the order given, whatever it held before; the job lists of
\* the other documents are as they were; and calling createJobs again with the
\* same arguments would leave the job lists as they are.
C34_CreateJobsReplaces ==
  [][lastOp'.op = "createJobs" =>
       LET d  == lastOp'.doc
           ps == Paragraphs(d)
       IN  /\ Len(jobs'[d]) = Len(ps)
           /\ \A i \in 1..Len(ps) :
                /\ jobs'[d][i].pid = ps[i].id
                /\ jobs'[d][i].status = "pending"
                /\ jobs'[d][i].error = ""
           /\ \A e \in Stores \ {d} : jobs'[e] = jobs[e]
           /\ CreateJobs([World EXCEPT !.jobs = jobs'], d, ps).jobs = jobs']_vars

\* createJobs has replaced the job list of a document that had a result, while
\* the other document has a job that is not pending.
C34_Witness ==
  \E d \in Docs : \E e \in Docs \ {d} :
    /\ lastOp = [op |-> "createJobs", doc |-> d]
    /\ results[d] # << >>
    /\ \A i \in 1..Len(jobs[d]) : jobs[d][i].status = "pending"
    /\ \E i \in 1..Len(jobs[e]) : jobs[e][i].status # "pending"

-----------------------------------------------------------------------------
\* C37: an operation of the store on one document leaves the jobs and the
\* results of every other document as they were and notifies no completion of
\* another document.
C37_DocumentsAreIsolated ==
  [][\A b \in Stores \ {lastOp'.doc} :
       /\ jobs'[b] = jobs[b]
       /\ results'[b] = results[b]
       /\ completeCount'[b] = completeCount[b]
       /\ \A j \in 1..Len(emitted') : emitted'[j].doc # b]_vars

\* One document has been cleared while the other one has jobs and a result.
C37_Witness ==
  \E d \in Docs : \E b \in Docs \ {d} :
    /\ lastOp = [op |-> "clearDocument", doc |-> d]
    /\ jobs[d] = << >>
    /\ jobs[b] # << >>
    /\ results[b] # << >>
    /\ completeCount[d] > 0

-----------------------------------------------------------------------------
\* The path without one trailing slash.
PathStem(path) ==
  IF path # << >> /\ path[Len(path)] = "/" THEN SubSeq(path, 1, Len(path) - 1) ELSE path

\* Two URLs that differ at most in letter case, in their fragment and in a
\* trailing slash of the path.
SameResource(a, b) ==
  LET u == ParseUrl(a)
      v == ParseUrl(b)
  IN  /\ u.origin = v.origin
      /\ ToLowerCase(PathStem(u.path)) = ToLowerCase(PathStem(v.path))
      /\ u.hasQuery = v.hasQuery
      /\ ToLowerCase(u.query) = ToLowerCase(v.query)

\* C38: two URLs get the same key exactly when they differ at most in letter
\* case, in the fragment and in a trailing slash of the path, so that URLs whose
\* query strings differ in more than letter case never share a key; and the key
\* of a key is that key.
C38_NormalizeUrlClasses ==
  keyOut # << >> /\ ParseUrl(keyIn[1]).valid /\ ParseUrl(keyIn[2]).valid =>
    /\ (keyOut[1].key = keyOut[2].key) <=> SameResource(keyIn[1], keyIn[2])
    /\ keyOut[1].again = keyOut[1].key
    /\ keyOut[2].again = keyOut[2].key

====
